---- MODULE Spec2Model ----
(***************************************************************************)
(* useLocalStorage (src/src/useLocalStorage.ts, lines 807-1157): a typed,  *)
(* observable key-value layer over window.localStorage / sessionStorage.   *)
(*                                                                         *)
(* Strings of the program (keys, payloads, type tags) are sequences of     *)
(* one-character strings, so that String(), parseFloat(), JSON.stringify,  *)
(* JSON.parse and the shadow-key regular expression are computed, not      *)
(* assumed.  JavaScript values are tagged tuples:                          *)
(*   <<"undefined">>  <<"null">>  <<"boolean", b>>  <<"string", chars>>    *)
(*   <<"number", kind, n, d>>   the number n / 10^d, or NaN / +-Infinity   *)
(*   <<"array", elems>>  <<"record", <<name, value>> pairs>>               *)
(* Numbers are mathematical: 0 and -0 are one value, as for ===.           *)
(***************************************************************************)
EXTENDS Integers, Sequences, FiniteSets, TLC

VARIABLES
    storageType,     \* the resolved medium ("Storage") or "undefined"
    storage,         \* the medium: slot name -> what getItem returns
    onList,          \* named subscriptions, in registration order
    onAnyList,       \* wildcard subscriptions, in registration order
    aborted,         \* AbortSignal.aborted, per signal
    abortListeners,  \* the 'abort' listeners (removeSelf closures) per signal
    stack,           \* the call stack below the running code, top first
    written,         \* per key, the value of the last init/set not yet removed
    calls,           \* callback invocations of the current top-level call
    last,            \* the current/last top-level call and its outcome
    otherTab,        \* the last call made in another context on the same
                     \* medium, and its change notifications
    hooks,           \* per instance of the hook: its component's state, its
                     \* type and the cleanup of its effect
    window           \* the 'storage' listeners of the window, the event it is
                     \* dispatching, and window.sessionStorage

vars == <<storageType, storage, onList, onAnyList, aborted, abortListeners,
          stack, written, calls, last, otherTab, hooks, window>>

----------------------------------------------------------------------------
(* Strings *)

S_undefined == <<"u","n","d","e","f","i","n","e","d">>
S_null      == <<"n","u","l","l">>
S_true      == <<"t","r","u","e">>
S_false     == <<"f","a","l","s","e">>
S_object    == <<"o","b","j","e","c","t">>
S_number    == <<"n","u","m","b","e","r">>
S_boolean   == <<"b","o","o","l","e","a","n">>
S_string    == <<"s","t","r","i","n","g">>
S_NaN       == <<"N","a","N">>
S_Infinity  == <<"I","n","f","i","n","i","t","y">>
S_dollars   == <<"$","$">>
S_data      == <<"_","d","a","t","a">>

Digits == <<"0","1","2","3","4","5","6","7","8","9">>
IsDigit(c) == \E i \in 1..10 : Digits[i] = c
DigitVal(c) == (CHOOSE i \in 1..10 : Digits[i] = c) - 1
\* StrWhiteSpaceChar and LineTerminator of the language, as far as the
\* alphabet of the model has them
WhiteSpaceChars == {" ", "\t", "\n", "\r"}
LineTerminators == {"\n", "\r"}

StartsWith(s, p) == Len(s) >= Len(p) /\ SubSeq(s, 1, Len(p)) = p
EndsWith(s, p) == Len(s) >= Len(p) /\ SubSeq(s, Len(s) - Len(p) + 1, Len(s)) = p
Drop(s, n) == SubSeq(s, n + 1, Len(s))

RECURSIVE Pow10(_)
Pow10(e) == IF e = 0 THEN 1 ELSE 10 * Pow10(e - 1)

RECURSIVE NatToStr(_)
NatToStr(m) == IF m < 10 THEN <<Digits[m + 1]>>
               ELSE NatToStr(m \div 10) \o <<Digits[(m % 10) + 1]>>

RECURSIVE PadLeft(_, _)
PadLeft(s, w) == IF Len(s) >= w THEN s ELSE PadLeft(<<"0">> \o s, w)

\* the longest prefix of digits
RECURSIVE DigitPrefix(_)
DigitPrefix(s) == IF s # <<>> /\ IsDigit(Head(s))
                  THEN <<Head(s)>> \o DigitPrefix(Tail(s)) ELSE <<>>

RECURSIVE StrToNat(_, _)
StrToNat(s, acc) == IF s = <<>> THEN acc
                    ELSE StrToNat(Tail(s), 10 * acc + DigitVal(Head(s)))

RECURSIVE TrimLeft(_)
TrimLeft(s) == IF s # <<>> /\ Head(s) \in WhiteSpaceChars THEN TrimLeft(Tail(s)) ELSE s

----------------------------------------------------------------------------
(* JavaScript values *)

Undefined == <<"undefined">>
JNull     == <<"null">>
JBool(b)  == <<"boolean", b>>
JStr(s)   == <<"string", s>>
JNaN      == <<"number", "nan", 0, 0>>
JInf      == <<"number", "inf", 0, 0>>
JNegInf   == <<"number", "ninf", 0, 0>>
JArr(xs)  == <<"array", xs>>
JRec(ps)  == <<"record", ps>>

\* n / 10^d in lowest decimal terms
RECURSIVE JNum(_, _)
JNum(n, d) == IF d > 0 /\ n % 10 = 0 THEN JNum(n \div 10, d - 1)
              ELSE <<"number", "fin", n, d>>

\* typeof v
TypeOf(v) == CASE v[1] = "undefined" -> S_undefined
               [] v[1] = "boolean"   -> S_boolean
               [] v[1] = "number"    -> S_number
               [] v[1] = "string"    -> S_string
               [] OTHER              -> S_object

\* Number::toString for the numbers of the model (1e-6 <= |x| < 1e21)
PosToString(m, d) ==
    NatToStr(m \div Pow10(d))
      \o (IF d = 0 THEN <<>> ELSE <<".">> \o PadLeft(NatToStr(m % Pow10(d)), d))

NumberToString(v) ==
    CASE v[2] = "nan"  -> S_NaN
      [] v[2] = "inf"  -> S_Infinity
      [] v[2] = "ninf" -> <<"-">> \o S_Infinity
      [] OTHER -> IF v[3] < 0 THEN <<"-">> \o PosToString(-v[3], v[4])
                  ELSE PosToString(v[3], v[4])

\* String(v) for a value that is not an object
StringOf(v) == CASE v[1] = "undefined" -> S_undefined
                 [] v[1] = "null"      -> S_null
                 [] v[1] = "boolean"   -> IF v[2] THEN S_true ELSE S_false
                 [] v[1] = "number"    -> NumberToString(v)
                 [] v[1] = "string"    -> v[2]

\* parseFloat(s): StrDecimalLiteral prefix of the trimmed string
ParseFloat(s) ==
    LET t    == TrimLeft(s)
        neg  == t # <<>> /\ Head(t) = "-"
        u    == IF t # <<>> /\ Head(t) \in {"+", "-"} THEN Tail(t) ELSE t
        ip   == DigitPrefix(u)
        u1   == Drop(u, Len(ip))
        dot  == u1 # <<>> /\ Head(u1) = "."
        fp   == IF dot THEN DigitPrefix(Tail(u1)) ELSE <<>>
        u2   == IF dot THEN Drop(u1, 1 + Len(fp)) ELSE u1
        hasE == u2 # <<>> /\ Head(u2) \in {"e", "E"}
        u3   == IF hasE THEN Tail(u2) ELSE <<>>
        eneg == u3 # <<>> /\ Head(u3) = "-"
        u4   == IF u3 # <<>> /\ Head(u3) \in {"+", "-"} THEN Tail(u3) ELSE u3
        ep   == DigitPrefix(u4)
        ex   == IF ep = <<>> THEN 0
                ELSE IF eneg THEN 0 - StrToNat(ep, 0) ELSE StrToNat(ep, 0)
        mant == StrToNat(ip \o fp, 0)
        sh   == ex - Len(fp)
        sgn  == IF neg THEN -1 ELSE 1
    IN  IF StartsWith(u, S_Infinity) THEN (IF neg THEN JNegInf ELSE JInf)
        ELSE IF ip = <<>> /\ fp = <<>> THEN JNaN
        ELSE IF sh >= 0 THEN JNum(sgn * mant * Pow10(sh), 0)
        ELSE JNum(sgn * mant, 0 - sh)

----------------------------------------------------------------------------
(* JSON.stringify and JSON.parse *)

EscapeChar(c) == CASE c = "\"" -> <<"\\", "\"">>
                   [] c = "\\" -> <<"\\", "\\">>
                   [] c = "\n" -> <<"\\", "n">>
                   [] c = "\r" -> <<"\\", "r">>
                   [] c = "\t" -> <<"\\", "t">>
                   [] OTHER    -> <<c>>

RECURSIVE Escape(_)
Escape(s) == IF s = <<>> THEN <<>> ELSE EscapeChar(Head(s)) \o Escape(Tail(s))

Quote(s) == <<"\"">> \o Escape(s) \o <<"\"">>

RECURSIVE Stringify(_), StringifyElems(_), StringifyMembers(_, _)
\* JSON.stringify(v) for v other than undefined
Stringify(v) ==
    CASE v[1] = "null"      -> S_null
      [] v[1] = "boolean"   -> IF v[2] THEN S_true ELSE S_false
      [] v[1] = "number"    -> IF v[2] = "fin" THEN NumberToString(v) ELSE S_null
      [] v[1] = "string"    -> Quote(v[2])
      [] v[1] = "array"     -> <<"[">> \o StringifyElems(v[2]) \o <<"]">>
      [] v[1] = "record"    -> <<"{">> \o StringifyMembers(v[2], TRUE) \o <<"}">>
      [] v[1] = "undefined" -> S_null

StringifyElems(xs) ==
    IF xs = <<>> THEN <<>>
    ELSE Stringify(Head(xs))
           \o (IF Len(xs) > 1 THEN <<",">> \o StringifyElems(Tail(xs)) ELSE <<>>)

\* members whose value is undefined are left out
StringifyMembers(ps, first) ==
    IF ps = <<>> THEN <<>>
    ELSE IF Head(ps)[2] = Undefined THEN StringifyMembers(Tail(ps), first)
    ELSE (IF first THEN <<>> ELSE <<",">>)
           \o Quote(Head(ps)[1]) \o <<":">> \o Stringify(Head(ps)[2])
           \o StringifyMembers(Tail(ps), FALSE)

\* the objects (typeof 'object') a caller stores
Objects ==
    { JNull,
      JRec(<<>>),
      JRec(<< <<<<"a">>, JNum(1, 0)>> >>),
      JArr(<< JNum(1, 0), JStr(<<"x">>) >>),
      JRec(<< <<<<"k">>, JArr(<< JBool(TRUE), JNull >>)>> >>) }

Strings  == { JStr(<<>>), JStr(<<"x">>), JStr(<<"4","2">>), JStr(S_true) }
Numbers  == { JNum(0, 0), JNum(42, 0), JNum(-7, 0), JNum(15, 1), JNum(5, 2),
              JNaN, JInf, JNegInf }
Booleans == { JBool(TRUE), JBool(FALSE) }

\* every supported value
Values == Strings \cup Numbers \cup Booleans \cup {Undefined} \cup Objects

\* the JSON texts of the model are those of these values: JSON.parse is the
\* inverse of JSON.stringify on them and a SyntaxError on any other text
JsonDomain == Objects \cup Booleans \cup {v \in Numbers : v[2] = "fin"}
                \cup {JNum(1, 0)} \cup Strings

SyntaxError == <<"throw", "SyntaxError">>
TypeError   == <<"throw", "TypeError">>
RangeError  == <<"throw", "RangeError">>
IsThrow(v)  == v[1] = "throw"

JsonParse(s) ==
    LET m == {j \in JsonDomain : Stringify(j) = s}
    IN  IF m = {} THEN SyntaxError ELSE CHOOSE j \in m : TRUE

----------------------------------------------------------------------------
(* The storage medium (window.localStorage / window.sessionStorage) *)

K_a     == <<"a">>
K_b     == <<"b">>
K_empty == <<>>
K_nl    == <<"a", "\n">>

\* `$$${key}_data`
ShadowKey(key) == S_dollars \o key \o S_data

\* the keys callers use; the shadow slot of "a" is itself a possible key
Keys  == {K_a, K_b, K_empty, K_nl, ShadowKey(K_a)}
Slots == Keys \cup {ShadowKey(k) : k \in Keys}

GetItem(st, slot)        == st[slot]
SetItem(st, slot, chars) == [st EXCEPT ![slot] = JStr(chars)]
RemoveItem(st, slot)     == [st EXCEPT ![slot] = JNull]
ClearItems(st)           == [slot \in DOMAIN st |-> JNull]
Present(st, slot)        == st[slot] # JNull

----------------------------------------------------------------------------
(* Codec: the encoding of init/set and the switch of get *)

\* JSON.stringify(data) for every type
EncodeAlwaysJson(data) == Stringify(data)

\* type === 'object' ? JSON.stringify(data) : String(data)
Encode(data) == IF TypeOf(data) = S_object THEN Stringify(data) ELSE StringOf(data)

\* the switch of get with a default case that returns undefined
DecodeDefaultUndefined(type, data) ==
    CASE type = JStr(S_object)    -> JsonParse(StringOf(data))
      [] type = JStr(S_number)    -> ParseFloat(StringOf(data))
      [] type = JStr(S_boolean)   -> JBool(data = JStr(S_true))
      [] OTHER                    -> Undefined

\* the switch of get with its 'number' case left out
DecodeNoNumber(type, data) ==
    CASE type = JStr(S_object)    -> JsonParse(StringOf(data))
      [] type = JStr(S_boolean)   -> JBool(data = JStr(S_true))
      [] type = JStr(S_undefined) -> Undefined
      [] OTHER                    -> data

\* the switch of get with Boolean(data) as its 'boolean' case
DecodeBooleanTruthy(type, data) ==
    CASE type = JStr(S_object)    -> JsonParse(StringOf(data))
      [] type = JStr(S_number)    -> ParseFloat(StringOf(data))
      [] type = JStr(S_boolean)   -> JBool(data \notin {JNull, Undefined, JStr(<<>>)})
      [] type = JStr(S_undefined) -> Undefined
      [] OTHER                    -> data

\* the switch of get on the stored type tag; type and data are what getItem
\* returned (a string, null, or undefined when there is no medium)
Decode(type, data) ==
    CASE type = JStr(S_object)    -> JsonParse(StringOf(data))
      [] type = JStr(S_number)    -> ParseFloat(StringOf(data))
      [] type = JStr(S_boolean)   -> JBool(data = JStr(S_true))
      [] type = JStr(S_undefined) -> Undefined
      [] OTHER                    -> data

----------------------------------------------------------------------------
(* Event registry: onList / onAnyList *)

Events   == {"init", "get", "set", "remove", "clear"}
Signals  == {"s1", "s2"}
NoSignal == "none"

\* bounds of the model
MaxSubs      == 3   \* named subscriptions held at once (Spec)
MaxFew       == 2   \* the same, where more is modelled of each subscription
MaxAny       == 1   \* wildcard subscriptions held at once
MaxWild      == 2   \* wildcard subscriptions held at once (SpecOrder)
MaxOnce      == 4   \* named subscriptions held at once (SpecOnce)
MaxListeners == 2   \* 'abort' listeners held by one signal
MaxAge       == 2   \* matching fires counted for a once subscription
MaxDepth     == 3   \* fires nested in one another that the call stack holds
MaxGrow      == 4   \* subscriptions a list holds when memory is exhausted

\* the caller's functions: A and B only observe; R reads RKey with get
\* (README: key => setState(storage.get(key))); W is the example of onAny:
\*   (event, key) => { if (event === 'remove' || event === 'clear') return
\*                     undefined; const data = storage.get(key); ... }
\* S stores SValue under the key it is called with (set(key, SValue)); G
\* subscribes itself once more where it was invoked from: on(event, G) as a
\* named subscriber, onAny(G) as a wildcard one
Callbacks == {"A", "B", "R", "W", "S", "G"}
RKey      == K_a
SValue    == JNum(42, 0)

\* A function value: w = 0 is the caller's callback itself, w > 0 is the w-th
\* wrapper `_callback` made for a once subscription of it (a fresh closure)
Fn(cb, w) == [cb |-> cb, w |-> w]
NoFn      == Fn("", 0)

\* An element of onList / onAnyList ({event, callback} / {callback}).  signal,
\* owner and age are bookkeeping of the model, not fields of the program: the
\* signal the subscription was registered with, the instance of the hook whose
\* on / onAny registered it, and how many fires matching a once subscription
\* have started since it was registered.
Entry(event, fn, signal, owner) ==
    [event |-> event, callback |-> fn, signal |-> signal, owner |-> owner, age |-> 0]

Min(a, b) == IF a < b THEN a ELSE b

\* Array.prototype.findIndex, 0 for -1: the first of the indices whose
\* element passes the test
FindIndex(passing) ==
    IF passing = {} THEN 0 ELSE CHOOSE i \in passing : \A j \in passing : i <= j

\* list.splice(index, 1)
Splice(list, index) == SubSeq(list, 1, index - 1) \o SubSeq(list, index + 1, Len(list))

\* the filter of the first options-aware version of off (lines 304-306)
OffFilter(list, event, callback) ==
    SelectSeq(list, LAMBDA obj : obj.event # event /\ obj.callback # callback)

\* off / removeEventListener: onList after off(event, callback)
Off(list, event, callback) ==
    LET index == FindIndex({i \in DOMAIN list :
                                list[i].event = event /\ list[i].callback = callback})
    IN  IF index > 0 THEN Splice(list, index) ELSE list

\* offAny: onAnyList after offAny(callback)
OffAny(list, callback) ==
    LET index == FindIndex({i \in DOMAIN list : list[i].callback = callback})
    IN  IF index > 0 THEN Splice(list, index) ELSE list

----------------------------------------------------------------------------
(* The machine: the mutable state, as one record, and the call stack *)

NotWritten == <<"none">>

Machine == [storage |-> storage, written |-> written, onList |-> onList,
            onAnyList |-> onAnyList, aborted |-> aborted,
            abortListeners |-> abortListeners, stack |-> stack,
            calls |-> calls, last |-> last]

\* Stack frames.  "fire": a running fireCallback(event, key), in its first
\* (phase "on") or second (phase "any") for-of loop, i the iterator's next
\* index.  "read": a get(key) between its two getItem calls, holding its local
\* type.  "get": a get(key) waiting for its fireCallback to return, holding
\* its locals type and data.  "cb": a running callback, todo the calls it
\* still makes.
Frame(kind, event, key, phase, type, data, todo) ==
    [kind |-> kind, event |-> event, key |-> key, phase |-> phase, i |-> 0,
     type |-> type, data |-> data, todo |-> todo]
FireFrame(event, key)     == Frame("fire", event, key, "on", Undefined, Undefined, <<>>)
ReadFrame(key, type)      == Frame("read", "get", key, "", type, Undefined, <<>>)
GetFrame(key, type, data) == Frame("get", "get", key, "", type, data, <<>>)
CbFrame(todo)             == Frame("cb", "", Undefined, "", Undefined, Undefined, todo)

\* a call a callback makes
Op(op, event, key, fn) == [op |-> op, event |-> event, key |-> key, callback |-> fn]

\* what the caller's function cb does when invoked by the fire f
Body(cb, f) ==
    CASE cb = "R" -> <<Op("get", "", RKey, NoFn)>>
      [] cb = "W" -> IF f.event \in {"remove", "clear"} THEN <<>>
                     ELSE <<Op("get", "", f.key[2], NoFn)>>
      [] cb = "S" -> <<Op("set", "", f.key[2], NoFn)>>
      [] cb = "G" -> IF f.phase = "any" THEN <<Op("onAny", "", Undefined, Fn("G", 0))>>
                     ELSE <<Op("on", f.event, Undefined, Fn("G", 0))>>
      [] OTHER    -> <<>>

FireDepth(stk) == Cardinality({i \in DOMAIN stk : stk[i].kind = "fire"})

\* An invocation record: the function called, the arguments, the fire that
\* called it, and what the subscription's signal was at that moment.
CallRec(obj, f, depth, wasAborted) ==
    [kind |-> "call", callback |-> obj.callback, wild |-> f.phase = "any",
     regEvent |-> obj.event, event |-> f.event, key |-> f.key, depth |-> depth,
     signal |-> obj.signal, owner |-> obj.owner, wasAborted |-> wasAborted,
     value |-> Undefined]
\* what a get called by a callback returned to it
RetRec(key, depth, value) ==
    [kind |-> "ret", callback |-> NoFn, wild |-> FALSE, regEvent |-> "", event |-> "get",
     key |-> key, depth |-> depth, signal |-> NoSignal, owner |-> "",
     wasAborted |-> FALSE, value |-> value]

\* an exception nobody catches ends the running top-level call
Throw(m, exc) == [m EXCEPT !.stack = <<>>, !.last.status = "threw", !.last.ret = exc]

\* fireCallback(event, key): entered; the loops run in Run.  The call stack
\* of the engine is finite: the call that does not fit throws a RangeError
\* ("Maximum call stack size exceeded").
FireCallback(m, event, key) ==
    LET outer == FireDepth(m.stack) = 0
        Older(obj, hit) == IF outer /\ hit /\ obj.callback.w > 0
                           THEN [obj EXCEPT !.age = Min(@ + 1, MaxAge)] ELSE obj
    IN  IF FireDepth(m.stack) >= MaxDepth THEN Throw(m, RangeError)
        ELSE [m EXCEPT !.stack = <<FireFrame(event, key)>> \o @,
                       !.last.fired = Append(@, <<event, key>>),
                       !.onList = [i \in DOMAIN @ |-> Older(@[i], @[i].event = event)],
                       !.onAnyList = [i \in DOMAIN @ |-> Older(@[i], TRUE)]]

\* init that writes only a key that is not there yet
InitCallIfAbsent(m, key, data) ==
    IF storageType = "undefined" THEN Throw(m, TypeError)
    ELSE FireCallback(
           IF Present(m.storage, key) THEN m
           ELSE [m EXCEPT !.storage = SetItem(SetItem(@, key, Encode(data)),
                                              ShadowKey(key), TypeOf(data)),
                          !.written[key] = data],
           "init", JStr(key))

InitCall(m, key, data) ==
    IF storageType = "undefined" THEN Throw(m, TypeError)
    ELSE FireCallback(
           [m EXCEPT !.storage = SetItem(SetItem(@, key, Encode(data)),
                                         ShadowKey(key), TypeOf(data)),
                     !.written[key] = data],
           "init", JStr(key))

\* set with its second setItem left out: the type is not recorded
SetCallNoTag(m, key, data) ==
    FireCallback(
      IF storageType = "undefined" THEN m
      ELSE [m EXCEPT !.storage = SetItem(@, key, Encode(data)),
                     !.written[key] = data],
      "set", JStr(key))

SetCall(m, key, data) ==
    FireCallback(
      IF storageType = "undefined" THEN m
      ELSE [m EXCEPT !.storage = SetItem(SetItem(@, key, Encode(data)),
                                         ShadowKey(key), TypeOf(data)),
                     !.written[key] = data],
      "set", JStr(key))

\* get, up to its first getItem: const type = storageType?.getItem(`$$${key}_data`)
GetTypeCall(m, key) ==
    LET type == IF storageType = "undefined" THEN Undefined
                ELSE GetItem(m.storage, ShadowKey(key))
    IN  [m EXCEPT !.stack = <<ReadFrame(JStr(key), type)>> \o @]

\* get, from its second getItem on: const data = storageType?.getItem(key);
\* fireCallback('get', key)
RunRead(m, f, rest) ==
    LET data == IF storageType = "undefined" THEN Undefined
                ELSE GetItem(m.storage, f.key[2])
    IN  FireCallback([m EXCEPT !.stack = <<GetFrame(f.key, f.type, data)>> \o rest],
                     "get", f.key)

\* get(key), to the point where fireCallback is entered
GetCall(m, key) ==
    LET m1 == GetTypeCall(m, key)
    IN  RunRead(m1, Head(m1.stack), Tail(m1.stack))

\* remove with its second removeItem left out
RemoveCallPrimaryOnly(m, key) ==
    IF storageType = "undefined" THEN Throw(m, TypeError)
    ELSE FireCallback(
           [m EXCEPT !.storage = RemoveItem(@, key),
                     !.written[key] = NotWritten],
           "remove", JStr(key))

RemoveCall(m, key) ==
    IF storageType = "undefined" THEN Throw(m, TypeError)
    ELSE FireCallback(
           [m EXCEPT !.storage = RemoveItem(RemoveItem(@, key), ShadowKey(key)),
                     !.written[key] = NotWritten],
           "remove", JStr(key))

\* clear that only fires
ClearCallNoClear(m) ==
    IF storageType = "undefined" THEN Throw(m, TypeError)
    ELSE FireCallback(m, "clear", Undefined)

\* clear that empties the two lists as well
ClearCallResetsRegistry(m) ==
    IF storageType = "undefined" THEN Throw(m, TypeError)
    ELSE FireCallback(
           [m EXCEPT !.storage = ClearItems(@),
                     !.written = [k \in DOMAIN @ |-> NotWritten],
                     !.onList = <<>>,
                     !.onAnyList = <<>>],
           "clear", Undefined)

ClearCall(m) ==
    IF storageType = "undefined" THEN Throw(m, TypeError)
    ELSE FireCallback(
           [m EXCEPT !.storage = ClearItems(@),
                     !.written = [k \in DOMAIN @ |-> NotWritten]],
           "clear", Undefined)

OffCall(m, event, callback) == [m EXCEPT !.onList = Off(@, event, callback)]
OffAnyCall(m, callback)     == [m EXCEPT !.onAnyList = OffAny(@, callback)]

\* the wrappers something still refers to
WrappersOf(list) == {list[i].callback.w : i \in DOMAIN list}
LiveWrappers(m) ==
    WrappersOf(m.onList) \cup WrappersOf(m.onAnyList)
      \cup UNION {WrappersOf(m.abortListeners[sg]) : sg \in Signals}
      \cup UNION {WrappersOf(m.stack[i].todo) : i \in DOMAIN m.stack}
FreshWrapper(m) == CHOOSE w \in 1..(Cardinality(LiveWrappers(m)) + 1) : w \notin LiveWrappers(m)

\* signal?.addEventListener('abort', removeSelf): a listener added to a
\* signal that has already dispatched 'abort' is never run
AddAbortListener(m, signal, removeSelf) ==
    IF signal = NoSignal \/ m.aborted[signal] THEN m
    ELSE [m EXCEPT !.abortListeners[signal] = Append(@, removeSelf)]

\* on with unshift in place of push
OnCallUnshift(m, event, cb, signal, once) ==
    LET callback_ == IF once THEN Fn(cb, FreshWrapper(m)) ELSE Fn(cb, 0)
        removeSelf == Op("off", event, Undefined, callback_)
    IN  AddAbortListener([m EXCEPT !.onList = <<Entry(event, callback_, signal, m.last.via)>> \o @],
                         signal, removeSelf)

OnCall(m, event, cb, signal, once) ==
    LET callback_ == IF once THEN Fn(cb, FreshWrapper(m)) ELSE Fn(cb, 0)
        removeSelf == Op("off", event, Undefined, callback_)
    IN  AddAbortListener(
          [m EXCEPT !.onList = Append(@, Entry(event, callback_, signal, m.last.via))],
          signal, removeSelf)

OnAnyCall(m, cb, signal, once) ==
    LET callback_ == IF once THEN Fn(cb, FreshWrapper(m)) ELSE Fn(cb, 0)
        removeSelf == Op("offAny", "", Undefined, callback_)
    IN  AddAbortListener(
          [m EXCEPT !.onAnyList = Append(@, Entry("", callback_, signal, m.last.via))],
          signal, removeSelf)

\* a call made by a callback, or by an 'abort' listener
Exec(m, o) ==
    CASE o.op = "get"    -> GetCall(m, o.key)
      [] o.op = "set"    -> SetCall(m, o.key, SValue)
      [] o.op = "on"     -> OnCall(m, o.event, o.callback.cb, NoSignal, FALSE)
      [] o.op = "onAny"  -> OnAnyCall(m, o.callback.cb, NoSignal, FALSE)
      [] o.op = "off"    -> OffCall(m, o.event, o.callback)
      [] o.op = "offAny" -> OffAnyCall(m, o.callback)

RECURSIVE ExecAll(_, _)
ExecAll(m, ops) == IF ops = <<>> THEN m ELSE ExecAll(Exec(m, Head(ops)), Tail(ops))

\* AbortController.abort(): dispatches 'abort' once, to the listeners in order
AbortCall(m, signal) ==
    IF m.aborted[signal] THEN m
    ELSE [ExecAll(m, m.abortListeners[signal])
            EXCEPT !.aborted[signal] = TRUE, !.abortListeners[signal] = <<>>]

\* obj.callback(key) / obj.callback(event, key): the function is entered.  A
\* once wrapper calls the caller's callback and then removeSelf().
Invoke(m, obj, f) ==
    LET wasAborted == obj.signal # NoSignal /\ m.aborted[obj.signal]
        rec  == CallRec(obj, f, FireDepth(m.stack), wasAborted)
        removeSelf == IF f.phase = "any" THEN Op("offAny", "", Undefined, obj.callback)
                      ELSE Op("off", obj.event, Undefined, obj.callback)
        todo == Body(obj.callback.cb, f) \o (IF obj.callback.w > 0 THEN <<removeSelf>> ELSE <<>>)
    IN  [m EXCEPT !.calls = Append(@, rec),
                  !.stack = IF todo = <<>> THEN @ ELSE <<CbFrame(todo)>> \o @]

\* One step of the running code: the top frame advances.
\*   for (const obj of onList) obj.event === event && obj.callback(key);
\*   for (const obj of onAnyList) obj.callback(event, key);
\* The array iterator reads the live array: index i, then i + 1, until i
\* reaches the array's current length.
RunFire(m, f, rest) ==
    LET list == IF f.phase = "on" THEN m.onList ELSE m.onAnyList
    IN  IF f.i < Len(list)
        THEN LET obj == list[f.i + 1]
                 m1  == [m EXCEPT !.stack = <<[f EXCEPT !.i = @ + 1]>> \o rest]
             IN  IF f.phase = "any" \/ obj.event = f.event THEN Invoke(m1, obj, f) ELSE m1
        ELSE IF f.phase = "on"
        THEN [m EXCEPT !.stack = <<[f EXCEPT !.phase = "any", !.i = 0]>> \o rest]
        ELSE [m EXCEPT !.stack = rest]

\* get, after fireCallback('get', key): the switch and the return
RunGet(m, f, rest) ==
    LET ret == Decode(f.type, f.data)
    IN  IF IsThrow(ret) THEN Throw(m, ret)
        ELSE IF rest = <<>> THEN [m EXCEPT !.stack = rest, !.last.ret = ret]
        ELSE [m EXCEPT !.stack = rest,
                       !.calls = Append(@, RetRec(f.key, FireDepth(rest), ret))]

RunCb(m, f, rest) ==
    IF f.todo = <<>> THEN [m EXCEPT !.stack = rest]
    ELSE Exec([m EXCEPT !.stack = <<[f EXCEPT !.todo = Tail(@)]>> \o rest], Head(f.todo))

Run(m) ==
    LET f == Head(m.stack)
        rest == Tail(m.stack)
    IN  CASE f.kind = "fire" -> RunFire(m, f, rest)
          [] f.kind = "read" -> RunRead(m, f, rest)
          [] f.kind = "get"  -> RunGet(m, f, rest)
          [] f.kind = "cb"   -> RunCb(m, f, rest)

----------------------------------------------------------------------------
(* Cross-tab translation: the 'storage' listener *)

\* !key
Falsy(v) == v \in {JNull, Undefined, JStr(<<>>)}

\* key.match(/^(\$\$)(.*)(_data)$/): "." matches no line terminator
MatchShadow(key) ==
    /\ Len(key) >= Len(S_dollars) + Len(S_data)
    /\ StartsWith(key, S_dollars)
    /\ EndsWith(key, S_data)
    /\ \A i \in (Len(S_dollars) + 1)..(Len(key) - Len(S_data)) : key[i] \notin LineTerminators

\* handleStorage without its test of the key
HandleStorageCallAnyKey(m, key, oldValue, newValue) ==
    IF oldValue = JNull /\ newValue # JNull THEN FireCallback(m, "init", key)
    ELSE IF oldValue # JNull /\ newValue # JNull THEN FireCallback(m, "set", key)
    ELSE IF oldValue # JNull /\ newValue = JNull THEN FireCallback(m, "remove", key)
    ELSE m

\* handleStorage(event), event = {key, oldValue, newValue}
HandleStorageCall(m, key, oldValue, newValue) ==
    IF Falsy(key) \/ MatchShadow(key[2]) THEN m
    ELSE IF oldValue = JNull /\ newValue # JNull THEN FireCallback(m, "init", key)
    ELSE IF oldValue # JNull /\ newValue # JNull THEN FireCallback(m, "set", key)
    ELSE IF oldValue # JNull /\ newValue = JNull THEN FireCallback(m, "remove", key)
    ELSE m

----------------------------------------------------------------------------
(* Instances of the hook: useLocalStorage(type) called by a component, its  *)
(* memoized storageType and the effect that listens to window's 'storage'   *)

Hooks == {"h1", "h2"}
Types == {"local", "session"}

\* An instance: state "none" before the first render of its component, then
\* "mounted", then "unmounted"; type is the argument of useLocalStorage at the
\* last render; cleanup is the listener that the last run of the effect
\* installed and that its cleanup function removes (0: the effect returned
\* no cleanup function).
Hook(state, type, cleanup) == [state |-> state, type |-> type, cleanup |-> cleanup]
NoHook == Hook("none", "", 0)

\* a listener of window's 'storage' event: the handleStorage closure made by
\* the id-th live run of the effect of instance h
Listener(h, id) == [hook |-> h, id |-> id]

\* {storageArea, key, oldValue, newValue} of a StorageEvent
StorageEvent(area, key, oldValue, newValue) ==
    [storageArea |-> area, key |-> key, oldValue |-> oldValue, newValue |-> newValue]
NoEvent == StorageEvent("", JNull, JNull, JNull)

\* React's side of the model: the instances and the window, as one record
Dom == [hooks |-> hooks, window |-> window]

FreshListener(r, h) ==
    CHOOSE id \in 1..(Len(r.window.listeners) + 1) :
        \A i \in DOMAIN r.window.listeners : r.window.listeners[i] # Listener(h, id)

\* the effect runs: if (!storageType) return;
\* window.addEventListener('storage', handleStorage);
\* return () => window.removeEventListener('storage', handleStorage)
EffectSetup(r, h) ==
    IF storageType = "undefined" THEN [r EXCEPT !.hooks[h].cleanup = 0]
    ELSE LET id == FreshListener(r, h)
         IN  [r EXCEPT !.window.listeners = Append(@, Listener(h, id)),
                       !.hooks[h].cleanup = id]

\* the cleanup function of the effect's last run, if it returned one
EffectCleanup(r, h) ==
    IF r.hooks[h].cleanup = 0 THEN r
    ELSE [r EXCEPT !.window.listeners =
                       SelectSeq(@, LAMBDA l : l # Listener(h, r.hooks[h].cleanup)),
                   !.hooks[h].cleanup = 0]

\* the first render of the component and the commit that follows it
MountHook(r, h, type) ==
    EffectSetup([r EXCEPT !.hooks[h] = Hook("mounted", type, 0)], h)

\* a later render: storageType is memoized on [type] and the effect depends on
\* [fireCallback, storageType], fireCallback being memoized on []; the
\* effect is cleaned up and run again only when type has changed
RenderHook(r, h, type) ==
    IF type = r.hooks[h].type THEN r
    ELSE EffectSetup([EffectCleanup(r, h) EXCEPT !.hooks[h].type = type], h)

\* an unmount that does not run the cleanup of the effect
UnmountHookNoCleanup(r, h) == [r EXCEPT !.hooks[h].state = "unmounted"]

\* the component is unmounted: React runs the cleanup of the effect
UnmountHook(r, h) == [EffectCleanup(r, h) EXCEPT !.hooks[h].state = "unmounted"]

\* window[`${type}Storage`] of an instance, as the storage of the machine
Bind(m, h) ==
    IF hooks[h].type = "session" THEN [m EXCEPT !.storage = window.sessionStorage] ELSE m

----------------------------------------------------------------------------
(* Actions: the calls of the API made by the component, the browser's      *)
(* notification, and the steps of the code that is running                 *)

FiringOps == {"init", "set", "get", "remove", "clear", "storage"}
SnapshotOps == FiringOps \cup {"off", "offAny"}
WritingOps == {"init", "set", "remove", "clear"}

\* a top-level call starts: the invocation record starts afresh.  via is the
\* instance of the hook whose function (or 'storage' listener) is called, name
\* the member of storageFunctions it was called by.
BeginVia(h, op, key, arg) ==
    [Machine EXCEPT !.calls = <<>>,
                    !.last = [op |-> op, key |-> key, arg |-> arg, status |-> "ok",
                              via |-> h, name |-> op,
                              ret |-> Undefined, fired |-> <<>>,
                              prevOp |-> IF op = "get" /\ last.op \in WritingOps
                                         THEN last.op ELSE "",
                              prevKey |-> IF op = "get" /\ last.op \in WritingOps
                                          THEN last.key ELSE Undefined,
                              onList0 |-> IF op \in SnapshotOps THEN onList ELSE <<>>,
                              onAnyList0 |-> IF op \in SnapshotOps THEN onAnyList ELSE <<>>]]

\* a call through the instance the component holds from its first render
Begin(op, key, arg) == BeginVia("h1", op, key, arg)

Assign(m) ==
    /\ storage' = m.storage
    /\ written' = m.written
    /\ onList' = m.onList
    /\ onAnyList' = m.onAnyList
    /\ aborted' = m.aborted
    /\ abortListeners' = m.abortListeners
    /\ stack' = m.stack
    /\ calls' = m.calls
    /\ last' = m.last

Commit(m) == Assign(m) /\ UNCHANGED <<storageType, otherTab, hooks, window>>

Idle == stack = <<>>

init(key, data) == Idle /\ Commit(InitCall(Begin("init", JStr(key), data), key, data))

set(key, data) == Idle /\ Commit(SetCall(Begin("set", JStr(key), data), key, data))

get(key) == Idle /\ Commit(GetCall(Begin("get", JStr(key), Undefined), key))

remove(key) == Idle /\ Commit(RemoveCall(Begin("remove", JStr(key), Undefined), key))

\* (the record keeps how many slots the medium held when clear was called)
clear ==
    /\ Idle
    /\ Commit(ClearCall(Begin("clear", Undefined,
                               Cardinality({slot \in Slots : Present(storage, slot)}))))

on(event, cb, signal, once) ==
    /\ Idle
    /\ signal # NoSignal => Len(abortListeners[signal]) < MaxListeners
    /\ Commit(OnCall(Begin("on", Undefined, Undefined), event, cb, signal, once))

onAny(cb, signal, once) ==
    /\ Idle
    /\ signal # NoSignal => Len(abortListeners[signal]) < MaxListeners
    /\ Commit(OnAnyCall(Begin("onAny", Undefined, Undefined), cb, signal, once))

off(event, cb) ==
    Idle /\ Commit(OffCall(Begin("off", Undefined, <<event, cb>>), event, Fn(cb, 0)))

offAny(cb) ==
    Idle /\ Commit(OffAnyCall(Begin("offAny", Undefined, <<"", cb>>), Fn(cb, 0)))

abort(signal) ==
    Idle /\ Commit(AbortCall(Begin("abort", Undefined, Undefined), signal))

\* the browser dispatches a 'storage' event; the listener is installed by the
\* effect only when the medium is resolved
storageEvent(key, oldValue, newValue) ==
    /\ Idle
    /\ storageType # "undefined"
    /\ Commit(HandleStorageCall(Begin("storage", key, <<oldValue, newValue>>),
                                key, oldValue, newValue))

run == ~Idle /\ Commit(Run(Machine))

\* what a get(key) that runs alone returns from the medium st
Stored(st, key) == Decode(GetItem(st, ShadowKey(key)), GetItem(st, key))

\* Another context (tab) bound to the same medium runs the same code.  The
\* browser queues, for this context, one 'storage' event per call of
\* setItem / removeItem that changed a slot ({key, oldValue, newValue}) and
\* one per clear() that removed something ({key: null}).
Notification(key, oldValue, newValue) ==
    [key |-> key, oldValue |-> oldValue, newValue |-> newValue]

NoOtherTab == [op |-> "", key |-> Undefined, pending |-> <<>>, fired |-> <<>>,
               todo |-> <<>>, before |-> Undefined, after |-> Undefined]

\* the notifications of the calls that took the slots, in the order given,
\* from before to after
Notifications(before, after, slots) ==
    LET changed == SelectSeq(slots, LAMBDA slot : before[slot] # after[slot])
    IN  [i \in DOMAIN changed |->
            Notification(JStr(changed[i]), before[changed[i]], after[changed[i]])]

\* op(key, data) is called in the other context: the medium changes and the
\* notifications are queued; what that context's subscribers receive is
\* (op, key); before and after are what get(key) returns before the call and
\* after it
mutateElsewhere(op, key, data) ==
    LET there == CASE op = "init"   -> InitCall(Machine, key, data)
                   [] op = "set"    -> SetCall(Machine, key, data)
                   [] op = "remove" -> RemoveCall(Machine, key)
                   [] op = "clear"  -> ClearCall(Machine)
        notes == IF op = "clear"
                 THEN IF there.storage # storage
                      THEN <<Notification(JNull, JNull, JNull)>> ELSE <<>>
                 ELSE Notifications(storage, there.storage, <<key, ShadowKey(key)>>)
    IN  /\ Idle
        /\ storageType # "undefined"
        /\ otherTab.pending = <<>>
        /\ storage' = there.storage
        /\ written' = there.written
        /\ otherTab' = [op |-> op, key |-> IF op = "clear" THEN Undefined ELSE JStr(key),
                        pending |-> notes, fired |-> <<>>, todo |-> <<>>,
                        before |-> Stored(storage, key),
                        after |-> Stored(there.storage, key)]
        /\ UNCHANGED <<storageType, onList, onAnyList, aborted, abortListeners,
                       stack, calls, last, hooks, window>>

\* the browser dispatches the next queued 'storage' event to handleStorage
dispatchStorage ==
    /\ Idle
    /\ otherTab.pending # <<>>
    /\ LET n == Head(otherTab.pending)
           m == HandleStorageCall(Begin("storage", n.key, <<n.oldValue, n.newValue>>),
                                  n.key, n.oldValue, n.newValue)
       IN  /\ Assign(m)
           /\ otherTab' = [otherTab EXCEPT !.pending = Tail(@),
                                           !.fired = @ \o m.last.fired]
    /\ UNCHANGED <<storageType, hooks, window>>


\* A call of the medium: setItem(slot, chars) or removeItem(slot)
MediumCall(method, slot, chars) == [method |-> method, slot |-> slot, chars |-> chars]

\* the calls of the medium that init / set (key, data) and remove(key) make,
\* in order
MediumCalls(op, key, data) ==
    IF op = "remove"
    THEN <<MediumCall("removeItem", key, <<>>), MediumCall("removeItem", ShadowKey(key), <<>>)>>
    ELSE <<MediumCall("setItem", key, Encode(data)),
           MediumCall("setItem", ShadowKey(key), TypeOf(data))>>

DoMediumCall(st, c) ==
    IF c.method = "setItem" THEN SetItem(st, c.slot, c.chars) ELSE RemoveItem(st, c.slot)

\* The other context runs in parallel with this one: the medium serializes
\* the single calls of getItem / setItem / removeItem, not the operations.
\* op(key, data) is called there while no get is running here; before and
\* after are what get(key) returns before the call and after it.
callElsewhere(op, key, data) ==
    /\ Idle
    /\ storageType # "undefined"
    /\ otherTab.todo = <<>>
    /\ otherTab' = [op |-> op, key |-> JStr(key), pending |-> <<>>, fired |-> <<>>,
                    todo |-> MediumCalls(op, key, data),
                    before |-> Stored(storage, key),
                    after |-> IF op = "remove" THEN JNull ELSE data]
    /\ UNCHANGED <<storageType, storage, onList, onAnyList, aborted, abortListeners,
                   stack, written, calls, last, hooks, window>>

\* the call running there makes its next call of the medium
stepElsewhere ==
    /\ otherTab.todo # <<>>
    /\ storage' = DoMediumCall(storage, Head(otherTab.todo))
    /\ otherTab' = [otherTab EXCEPT !.todo = Tail(@)]
    /\ UNCHANGED <<storageType, onList, onAnyList, aborted, abortListeners,
                   stack, written, calls, last, hooks, window>>

\* get(key) is called here and makes its first getItem; run makes the second
getType(key) ==
    Idle /\ Commit(GetTypeCall(Begin("get", JStr(key), Undefined), key))

\* Code that does not use the hook writes the medium directly:
\* window.localStorage.setItem(slot, chars) / removeItem(slot)
foreignSetItem(slot, chars) ==
    /\ Idle
    /\ storageType # "undefined"
    /\ Commit([Begin("setItem", JStr(slot), JStr(chars))
                 EXCEPT !.storage = SetItem(@, slot, chars)])

foreignRemoveItem(slot) ==
    /\ Idle
    /\ storageType # "undefined"
    /\ Commit([Begin("removeItem", JStr(slot), Undefined)
                 EXCEPT !.storage = RemoveItem(@, slot)])

\* storageFunctions with removeEventListener bound to offAny
storageFunctionsCrossed ==
    [init |-> "init", set |-> "set", get |-> "get", remove |-> "remove",
     clear |-> "clear", on |-> "on", addEventListener |-> "on", onAny |-> "onAny",
     off |-> "off", removeEventListener |-> "offAny", offAny |-> "offAny"]

\* storageFunctions: the function each member is bound to
storageFunctions ==
    [init |-> "init", set |-> "set", get |-> "get", remove |-> "remove",
     clear |-> "clear", on |-> "on", addEventListener |-> "on", onAny |-> "onAny",
     off |-> "off", removeEventListener |-> "off", offAny |-> "offAny"]

\* storageFunctions[name](a1, a2, {signal, once}), name a member that
\* subscribes or unsubscribes: on(event, callback, options),
\* onAny(callback, options), off(event, callback), offAny(callback)
Member(name, a1, a2, signal, once) ==
    LET fn == storageFunctions[name]
        m  == [Begin(fn, Undefined,
                     CASE fn = "off" -> <<a1, a2>> [] fn = "offAny" -> <<"", a1>>
                       [] OTHER -> Undefined)
                 EXCEPT !.last.name = name]
    IN  CASE fn = "on"     -> OnCall(m, a1, a2, signal, once)
          [] fn = "onAny"  -> OnAnyCall(m, a1, signal, once)
          [] fn = "off"    -> OffCall(m, a1, Fn(a2, 0))
          [] fn = "offAny" -> OffAnyCall(m, Fn(a1, 0))

addEventListener(event, cb, signal, once) ==
    /\ Idle
    /\ signal # NoSignal => Len(abortListeners[signal]) < MaxListeners
    /\ Commit(Member("addEventListener", event, cb, signal, once))

removeEventListener(event, cb) ==
    Idle /\ Commit(Member("removeEventListener", event, cb, NoSignal, FALSE))

\* React: the component that calls useLocalStorage(type) as instance h is
\* rendered for the first time, rendered again, unmounted
Rendering(h, op, r) ==
    /\ Idle
    /\ window.dispatching = <<>>
    /\ Assign(BeginVia(h, op, Undefined, Undefined))
    /\ hooks' = r.hooks
    /\ window' = r.window
    /\ UNCHANGED <<storageType, otherTab>>

mount(h, type) ==
    hooks[h].state = "none" /\ Rendering(h, "mount", MountHook(Dom, h, type))

render(h, type) ==
    hooks[h].state = "mounted" /\ Rendering(h, "render", RenderHook(Dom, h, type))

unmount(h) ==
    hooks[h].state = "mounted" /\ Rendering(h, "unmount", UnmountHook(Dom, h))

\* A call of a function of the storageFunctions of instance h, which the
\* component (or whoever it passed them to) holds from the first render on.
\* The functions of an instance of type 'session' work on window.sessionStorage.
CommitVia(h, m) ==
    /\ Idle
    /\ window.dispatching = <<>>
    /\ hooks[h].state # "none"
    /\ IF hooks[h].type = "session"
       THEN /\ Assign([m EXCEPT !.storage = storage, !.written = written])
            /\ window' = [window EXCEPT !.sessionStorage = m.storage]
       ELSE /\ Assign(m)
            /\ UNCHANGED window
    /\ UNCHANGED <<storageType, otherTab, hooks>>

initVia(h, key, data) ==
    CommitVia(h, InitCall(Bind(BeginVia(h, "init", JStr(key), data), h), key, data))

setVia(h, key, data) ==
    CommitVia(h, SetCall(Bind(BeginVia(h, "set", JStr(key), data), h), key, data))

getVia(h, key) ==
    CommitVia(h, GetCall(Bind(BeginVia(h, "get", JStr(key), Undefined), h), key))

removeVia(h, key) ==
    CommitVia(h, RemoveCall(Bind(BeginVia(h, "remove", JStr(key), Undefined), h), key))

clearVia(h) ==
    CommitVia(h, ClearCall(Bind(BeginVia(h, "clear", Undefined, Undefined), h)))

onVia(h, event, cb) ==
    CommitVia(h, OnCall(BeginVia(h, "on", Undefined, Undefined), event, cb, NoSignal, FALSE))

onAnyVia(h, cb) ==
    CommitVia(h, OnAnyCall(BeginVia(h, "onAny", Undefined, Undefined), cb, NoSignal, FALSE))

offVia(h, event, cb) ==
    CommitVia(h, OffCall(BeginVia(h, "off", Undefined, <<event, cb>>), event, Fn(cb, 0)))

offAnyVia(h, cb) ==
    CommitVia(h, OffAnyCall(BeginVia(h, "offAny", Undefined, <<"", cb>>), Fn(cb, 0)))

\* The browser dispatches a StorageEvent on window: the 'storage' listeners
\* installed at that moment will be called, in the order they were added
notify(area, key, oldValue, newValue) ==
    /\ Idle
    /\ window.dispatching = <<>>
    /\ window.listeners # <<>>
    /\ window' = [window EXCEPT !.event = StorageEvent(area, key, oldValue, newValue),
                                !.dispatching = window.listeners]
    /\ UNCHANGED <<storageType, storage, onList, onAnyList, aborted, abortListeners,
                   stack, written, calls, last, otherTab, hooks>>

\* the next listener of the event being dispatched is called: handleStorage
\* of the instance that installed it
deliver ==
    /\ Idle
    /\ window.dispatching # <<>>
    /\ LET l == Head(window.dispatching)
           e == window.event
       IN  Assign(HandleStorageCall(
                    BeginVia(l.hook, "storage", e.key, <<e.oldValue, e.newValue>>),
                    e.key, e.oldValue, e.newValue))
    /\ window' = [window EXCEPT !.dispatching = Tail(@)]
    /\ UNCHANGED <<storageType, otherTab, hooks>>

----------------------------------------------------------------------------
(* Specifications *)

\* the component has rendered once, with useLocalStorage('local') as h1
Mounted == MountHook([hooks |-> [h \in Hooks |-> NoHook],
                      window |-> [listeners |-> <<>>, event |-> NoEvent,
                                  dispatching |-> <<>>,
                                  sessionStorage |-> [slot \in Slots |-> JNull]]],
                     "h1", "local")

Init ==
    /\ storageType = "Storage"
    /\ storage = [slot \in Slots |-> JNull]
    /\ written = [k \in Keys |-> NotWritten]
    /\ onList = <<>>
    /\ onAnyList = <<>>
    /\ aborted = [sg \in Signals |-> FALSE]
    /\ abortListeners = [sg \in Signals |-> <<>>]
    /\ stack = <<>>
    /\ calls = <<>>
    /\ last = [op |-> "mount", key |-> Undefined, arg |-> Undefined, status |-> "ok",
               via |-> "h1", name |-> "mount", ret |-> Undefined, fired |-> <<>>, prevOp |-> "", prevKey |-> Undefined,
               onList0 |-> <<>>, onAnyList0 |-> <<>>]
    /\ otherTab = NoOtherTab
    /\ hooks = Mounted.hooks
    /\ window = Mounted.window

\* Storage and codec: every supported value under the key "a", and the key
\* "$$a_data", which is also the shadow slot of "a"
StoreWrites ==
    ({K_a} \X Values)
      \cup ({ShadowKey(K_a)} \X {JStr(<<"x">>), JNum(42, 0), JRec(<<>>)})
StoreKeys == {K_a, ShadowKey(K_a)}

NextStore ==
    \/ \E w \in StoreWrites : init(w[1], w[2])
    \/ \E w \in StoreWrites : set(w[1], w[2])
    \/ \E k \in StoreKeys : get(k)
    \/ \E k \in StoreKeys : remove(k)
    \/ clear
    \/ run

SpecStore == Init /\ [][NextStore]_vars

\* Registry and firing: one key, one value, every operation, and two
\* observers that subscribe to 'set', to 'get' and to every event, and
\* unsubscribe
ObservedEvents == {"set", "get"}

Next ==
    \/ \E e \in ObservedEvents, cb \in {"A", "B"} :
          Len(onList) < MaxSubs /\ on(e, cb, NoSignal, FALSE)
    \/ \E cb \in {"A", "B"} : Len(onAnyList) < MaxAny /\ onAny(cb, NoSignal, FALSE)
    \/ \E e \in ObservedEvents, cb \in {"A", "B"} : off(e, cb)
    \/ \E cb \in {"A", "B"} : offAny(cb)
    \/ init(K_a, JNum(42, 0))
    \/ set(K_a, JNum(42, 0))
    \/ get(K_a)
    \/ remove(K_a)
    \/ clear
    \/ run

Spec == Init /\ [][Next]_vars

\* Callbacks that read: R calls get("a") when invoked (README example)
NextReader ==
    \/ \E e \in {"init", "set", "remove", "clear"}, cb \in {"A", "R"} :
          Len(onList) < MaxFew /\ on(e, cb, NoSignal, FALSE)
    \/ Len(onList) < MaxFew /\ on("get", "A", NoSignal, FALSE)
    \/ \E e \in {"set", "remove"}, cb \in {"A", "R"} : off(e, cb)
    \/ \E v \in {JNum(42, 0), JStr(<<"x">>)} : init(K_a, v)
    \/ \E v \in {JNum(42, 0), JStr(<<"x">>)} : set(K_a, v)
    \/ remove(K_a)
    \/ clear
    \/ run

SpecReader == Init /\ [][NextReader]_vars

\* once: subscriptions of 'set' and wildcard subscriptions, with and without
\* the once option
NextOnce ==
    \/ \E once \in BOOLEAN : Len(onList) < MaxOnce /\ on("set", "A", NoSignal, once)
    \/ \E once \in BOOLEAN : Len(onAnyList) < MaxAny /\ onAny("A", NoSignal, once)
    \/ set(K_a, JNum(42, 0))
    \/ run

SpecOnce == Init /\ [][NextOnce]_vars

\* signal: subscriptions registered with an AbortSignal, and abort()
NextCancel ==
    \/ \E sg \in {NoSignal, "s1"}, once \in BOOLEAN :
          Len(onList) < MaxFew /\ on("set", "A", sg, once)
    \/ \E sg \in {NoSignal, "s1"}, once \in BOOLEAN :
          Len(onAnyList) < MaxAny /\ onAny("A", sg, once)
    \/ off("set", "A")
    \/ offAny("A")
    \/ abort("s1")
    \/ set(K_a, JNum(42, 0))
    \/ run

SpecCancel == Init /\ [][NextCancel]_vars

\* signal: subscriptions registered with the signal of a controller that has
\* already aborted (ac.abort(); on('set', A, {signal: ac.signal})), beside an
\* observer registered without a signal
NextLate ==
    \/ abort("s1")
    \/ \E once \in BOOLEAN :
          aborted["s1"] /\ Len(onList) < MaxFew /\ on("set", "A", "s1", once)
    \/ \E once \in BOOLEAN :
          aborted["s1"] /\ Len(onAnyList) < MaxAny /\ onAny("A", "s1", once)
    \/ Len(onList) < MaxFew /\ on("set", "B", NoSignal, FALSE)
    \/ off("set", "B")
    \/ set(K_a, JNum(42, 0))
    \/ run

SpecLate == Init /\ [][NextLate]_vars

\* order: named and wildcard subscriptions of two observers, those of A with
\* and without once, subscribed and unsubscribed between fires
NextOrder ==
    \/ \E once \in BOOLEAN : Len(onList) < MaxFew /\ on("set", "A", NoSignal, once)
    \/ Len(onList) < MaxFew /\ on("set", "B", NoSignal, FALSE)
    \/ \E once \in BOOLEAN : Len(onAnyList) < MaxWild /\ onAny("A", NoSignal, once)
    \/ Len(onAnyList) < MaxWild /\ onAny("B", NoSignal, FALSE)
    \/ off("set", "B")
    \/ offAny("B")
    \/ set(K_a, JNum(42, 0))
    \/ run

SpecOrder == Init /\ [][NextOrder]_vars

\* No window (typeof window === 'undefined'): storageType is undefined
InitAbsent ==
    /\ storageType = "undefined"
    /\ storage = [slot \in Slots |-> JNull]
    /\ written = [k \in Keys |-> NotWritten]
    /\ onList = <<>>
    /\ onAnyList = <<>>
    /\ aborted = [sg \in Signals |-> FALSE]
    /\ abortListeners = [sg \in Signals |-> <<>>]
    /\ stack = <<>>
    /\ calls = <<>>
    /\ last = [op |-> "mount", key |-> Undefined, arg |-> Undefined, status |-> "ok",
               via |-> "h1", name |-> "mount", ret |-> Undefined, fired |-> <<>>, prevOp |-> "", prevKey |-> Undefined,
               onList0 |-> <<>>, onAnyList0 |-> <<>>]
    /\ otherTab = NoOtherTab
    /\ hooks = Mounted.hooks
    /\ window = Mounted.window

NextAbsent ==
    \/ \E e \in Events : Len(onList) < MaxFew /\ on(e, "A", NoSignal, FALSE)
    \/ Len(onAnyList) < MaxAny /\ onAny("B", NoSignal, FALSE)
    \/ init(K_a, JNum(42, 0))
    \/ set(K_a, JNum(42, 0))
    \/ get(K_a)
    \/ remove(K_a)
    \/ clear
    \/ run

SpecAbsent == InitAbsent /\ [][NextAbsent]_vars

\* Decoding what the slots hold: the key "a", and the key "$$a_data" written
\* with the string 'object', which is then the type tag of "a"; subscribers
\* of 'get' with and without once
NextDecode ==
    \/ \E v \in {JStr(<<"x">>), JNum(42, 0), JRec(<<>>)} : init(K_a, v)
    \/ set(ShadowKey(K_a), JStr(S_object))
    \/ \E once \in BOOLEAN : Len(onList) < MaxFew /\ on("get", "A", NoSignal, once)
    \/ get(K_a)
    \/ run

SpecDecode == Init /\ [][NextDecode]_vars

\* Two contexts on one medium: the calls of the other one, and the
\* notifications they cause here
NextCrossTab ==
    \/ \E e \in {"init", "set", "remove", "clear"} :
          Len(onList) < MaxFew /\ on(e, "A", NoSignal, FALSE)
    \/ \E op \in {"init", "set"}, v \in {JNum(42, 0), JStr(<<"x">>)} :
          mutateElsewhere(op, K_a, v)
    \/ mutateElsewhere("remove", K_a, Undefined)
    \/ mutateElsewhere("clear", K_a, Undefined)
    \/ dispatchStorage
    \/ run

SpecCrossTab == Init /\ [][NextCrossTab]_vars

\* Two contexts on one medium: the other one stores the number 42 and the
\* string "42" under the key "a", whose payloads are the same string
NextRetype ==
    \/ \E e \in {"init", "set"} : Len(onList) < MaxFew /\ on(e, "A", NoSignal, FALSE)
    \/ Len(onAnyList) < MaxAny /\ onAny("B", NoSignal, FALSE)
    \/ \E op \in {"init", "set"}, v \in {JNum(42, 0), JStr(<<"4", "2">>)} :
          mutateElsewhere(op, K_a, v)
    \/ mutateElsewhere("remove", K_a, Undefined)
    \/ dispatchStorage
    \/ run

SpecRetype == Init /\ [][NextRetype]_vars

\* Two components, each with its own instance of the hook: h1 is mounted,
\* h2 is mounted with either type; both subscribe the same function A and
\* unsubscribe it, and call set and remove; the browser dispatches a change
\* notification of the key "a"
NextInstances ==
    \/ \E t \in Types : mount("h2", t)
    \/ \E h \in Hooks : Len(onList) < MaxFew /\ onVia(h, "set", "A")
    \/ \E h \in Hooks : Len(onAnyList) < MaxAny /\ onAnyVia(h, "A")
    \/ \E h \in Hooks : offVia(h, "set", "A")
    \/ \E h \in Hooks : offAnyVia(h, "A")
    \/ \E h \in Hooks : setVia(h, K_a, JNum(42, 0))
    \/ \E h \in Hooks : removeVia(h, K_a)
    \/ notify("local", JStr(K_a), JStr(<<"x">>), JStr(<<"4", "2">>))
    \/ deliver
    \/ run

SpecInstances == Init /\ [][NextInstances]_vars

\* The life of the instances, with a window and without one: each component
\* is rendered again with the same and with another type and is unmounted,
\* and the functions of its instance are called before and after that
NextLifecycle ==
    \/ \E t \in Types : mount("h2", t)
    \/ \E h \in Hooks, t \in Types : render(h, t)
    \/ \E h \in Hooks : unmount(h)
    \/ Len(onList) < MaxFew /\ onVia("h1", "set", "A")
    \/ \E h \in Hooks : initVia(h, K_a, JNum(42, 0))
    \/ \E h \in Hooks : setVia(h, K_a, JNum(42, 0))
    \/ \E h \in Hooks : getVia(h, K_a)
    \/ \E h \in Hooks : removeVia(h, K_a)
    \/ \E h \in Hooks : clearVia(h)
    \/ \E area \in Types : notify(area, JStr(K_a), JStr(<<"x">>), JStr(<<"4", "2">>))
    \/ deliver
    \/ run

SpecLifecycle == (Init \/ InitAbsent) /\ [][NextLifecycle]_vars

\* The two names of on and of off: A is subscribed with on, with and
\* without once, and unsubscribed with removeEventListener; B is subscribed
\* with addEventListener, with and without once and a signal, and
\* unsubscribed with off
NextAlias ==
    \/ \E once \in BOOLEAN : Len(onList) < MaxFew /\ on("set", "A", NoSignal, once)
    \/ \E o \in {<<NoSignal, FALSE>>, <<"s1", FALSE>>, <<"s1", TRUE>>} :
          Len(onList) < MaxFew /\ addEventListener("set", "B", o[1], o[2])
    \/ removeEventListener("set", "A")
    \/ off("set", "B")
    \/ abort("s1")
    \/ set(K_a, JNum(42, 0))
    \/ run

SpecAlias == Init /\ [][NextAlias]_vars

\* The example of onAny: the wildcard subscriber W, which reads the key of
\* every event but 'remove' and 'clear', beside an observer of 'set' and 'get'
NextWildcard ==
    \/ Len(onAnyList) < MaxAny /\ onAny("W", NoSignal, FALSE)
    \/ \E e \in {"set", "get"} : Len(onList) < MaxFew /\ on(e, "A", NoSignal, FALSE)
    \/ offAny("W")
    \/ \E v \in {JNum(42, 0), JStr(<<"x">>)} : init(K_a, v)
    \/ \E v \in {JNum(42, 0), JStr(<<"x">>)} : set(K_a, v)
    \/ get(K_a)
    \/ remove(K_a)
    \/ clear
    \/ run

SpecWildcard == Init /\ [][NextWildcard]_vars

\* Callbacks that write: S, subscribed to 'set' with once, calls set when it
\* is invoked; R, subscribed to 'get' with once, calls get
NextNested ==
    \/ Len(onList) < MaxFew /\ on("set", "S", NoSignal, TRUE)
    \/ Len(onList) < MaxFew /\ on("get", "R", NoSignal, TRUE)
    \/ \E e \in {"set", "get"} : Len(onList) < MaxFew /\ on(e, "A", NoSignal, FALSE)
    \/ set(K_a, JStr(<<"x">>))
    \/ get(K_a)
    \/ run

SpecNested == Init /\ [][NextNested]_vars

\* Callbacks that subscribe: G, subscribed to 'set' or to every event,
\* subscribes itself once more on each invocation, beside an observer; the
\* code runs on as long as the lists fit in memory
NextGrow ==
    \/ \E cb \in {"A", "G"} : Len(onList) < MaxFew /\ on("set", cb, NoSignal, FALSE)
    \/ Len(onAnyList) < MaxAny /\ onAny("G", NoSignal, FALSE)
    \/ off("set", "G")
    \/ offAny("G")
    \/ set(K_a, JNum(42, 0))
    \/ Len(onList) < MaxGrow /\ Len(onAnyList) < MaxGrow /\ run

SpecGrow == Init /\ [][NextGrow]_vars

\* Storage and registry side by side: every operation, subscribers of
\* 'clear' with and without once, a subscriber of 'get' under the other names
\* of on and off, and a wildcard subscriber with once
NextFrame ==
    \/ \E once \in BOOLEAN : Len(onList) < MaxFew /\ on("clear", "A", NoSignal, once)
    \/ Len(onList) < MaxFew /\ addEventListener("get", "B", NoSignal, FALSE)
    \/ Len(onAnyList) < MaxAny /\ onAny("A", NoSignal, TRUE)
    \/ off("clear", "A")
    \/ removeEventListener("get", "B")
    \/ offAny("A")
    \/ init(K_a, JNum(42, 0))
    \/ set(K_a, JStr(<<"x">>))
    \/ get(K_a)
    \/ remove(K_a)
    \/ clear
    \/ run

SpecFrame == Init /\ [][NextFrame]_vars

\* Two contexts on one medium, call by call of the medium: init, set and
\* remove of the key "a" there, get("a") here
NextAtomic ==
    \/ \E op \in {"init", "set"}, v \in {JStr(<<"x">>), JNum(42, 0), JRec(<<>>)} :
          callElsewhere(op, K_a, v)
    \/ callElsewhere("remove", K_a, Undefined)
    \/ stepElsewhere
    \/ getType(K_a)
    \/ run

SpecAtomic == Init /\ [][NextAtomic]_vars

\* Decoding whatever the two slots of "a" hold: payloads and type tags
\* written directly to the medium, and get("a")
Payloads == { <<>>, <<"x">>, <<"4", "2">>, <<"1", ".", "5">>, <<" ", "7", "e", "1", "x">>,
              S_true, S_false, S_null, <<"{", "}">>, <<"\"", "x", "\"">> }
Tags     == { S_object, S_number, S_boolean, S_undefined, S_string,
              <<"b", "i", "g", "i", "n", "t">>, <<>>, <<"O", "b", "j", "e", "c", "t">> }

NextTags ==
    \/ \E p \in Payloads : foreignSetItem(K_a, p)
    \/ \E t \in Tags : foreignSetItem(ShadowKey(K_a), t)
    \/ \E slot \in {K_a, ShadowKey(K_a)} : foreignRemoveItem(slot)
    \/ get(K_a)
    \/ run

SpecTags == Init /\ [][NextTags]_vars

\* Change notifications from another context
NotifiedKeys == {JNull, JStr(K_a), JStr(K_empty), JStr(K_nl), JStr(ShadowKey(K_a)),
                 JStr(ShadowKey(K_empty)), JStr(ShadowKey(K_nl))}
NotifiedValues == {JNull, JStr(<<>>), JStr(<<"x">>)}

NextStorageEvent ==
    \/ \E e \in {"init", "set", "remove"}, cb \in {"A", "B"} :
          Len(onList) < MaxFew /\ on(e, cb, NoSignal, FALSE)
    \/ Len(onAnyList) < MaxAny /\ onAny("A", NoSignal, FALSE)
    \/ \E k \in NotifiedKeys, old \in NotifiedValues, new \in NotifiedValues :
          storageEvent(k, old, new)
    \/ run

SpecStorageEvent == Init /\ [][NextStorageEvent]_vars

\* Change notifications that name no key (what clear() causes) or no value,
\* beside well-formed ones, with subscribers registered and the key "a" stored
NextMalformed ==
    \/ \E e \in {"init", "set", "remove"} :
          Len(onList) < MaxFew /\ on(e, "A", NoSignal, FALSE)
    \/ \E once \in BOOLEAN : Len(onAnyList) < MaxAny /\ onAny("B", NoSignal, once)
    \/ set(K_a, JNum(42, 0))
    \/ \E k \in {JNull, JStr(K_a)}, old \in NotifiedValues, new \in NotifiedValues :
          storageEvent(k, old, new)
    \/ run

SpecMalformed == Init /\ [][NextMalformed]_vars

----------------------------------------------------------------------------
(* Claims *)

\* a get that has returned, called right after an init or set of the same key
GetAfterWrite ==
    /\ Idle
    /\ last.op = "get"
    /\ last.prevOp \in {"init", "set"}
    /\ last.prevKey = last.key

\* C1: get(key) called right after init(key, v) or set(key, v) returns
\* normally, and returns a value equal to v and of v's type, for every key
\* and supported value v and whatever the two slots held before.
C1_RoundTrip ==
    GetAfterWrite => last.status = "ok" /\ last.ret = written[last.key[2]]

\* C1 happens: a number stored over something else has been read back as
\* that number, and so has an object
C1_Witness ==
    /\ GetAfterWrite
    /\ last.ret \in {JNum(15, 1), JRec(<< <<<<"k">>, JArr(<< JBool(TRUE), JNull >>)>> >>)}
    /\ storage[ShadowKey(ShadowKey(K_a))] # JNull

\* keys that are not themselves the name of a shadow slot
PlainKeys == {k \in Keys : ~MatchShadow(k)}

\* C2: in every state reached by init, set, get, remove and clear, on a
\* resolved medium, the primary slot of a key exists if and only if its shadow
\* slot exists (stated here for the keys that are not shadow-slot names).
C2_SlotPairing ==
    \A k \in PlainKeys : Present(storage, k) <=> Present(storage, ShadowKey(k))

\* the event name each operation fires
EventOf(op) == op

\* the subscribers the top-level call's own fire has invoked, in order, as
\* <<function, event it is registered for, key argument>>
DirectCalls(wild) ==
    LET sel == SelectSeq(calls, LAMBDA c : c.kind = "call" /\ c.depth = 1 /\ c.wild = wild)
    IN  [i \in DOMAIN sel |-> <<sel[i].callback, sel[i].regEvent, sel[i].key>>]

\* the named subscribers of the fired event that were registered when the
\* call was made
NamedSubscribers ==
    LET sel == SelectSeq(last.onList0, LAMBDA obj : obj.event = EventOf(last.op))
    IN  [i \in DOMAIN sel |-> <<sel[i].callback, sel[i].event, last.key>>]

\* C3: a call of init, set, get, remove or clear invokes every named
\* subscriber registered for its event once, with the key (no key for clear),
\* and no subscriber registered for another event.
C3_EventFiring ==
    (Idle /\ last.op \in {"init", "set", "get", "remove", "clear"} /\ last.status = "ok")
        => DirectCalls(FALSE) = NamedSubscribers

\* what get("a") returned to a callback that the top-level call's own fire
\* invoked
ReadInCallback ==
    {calls[i].value : i \in {j \in DOMAIN calls : calls[j].kind = "ret" /\ calls[j].depth = 1}}

\* C4: the storage write comes before the fire: inside a callback invoked
\* by init(k, v) or set(k, v), get(k) returns v; inside a callback invoked by
\* remove(k) or clear(), get(k) returns null.
C4_WriteBeforeFire ==
    /\ (last.op \in {"init", "set"} /\ last.key = JStr(RKey))
          => \A v \in ReadInCallback : v = last.arg
    /\ ((last.op = "remove" /\ last.key = JStr(RKey)) \/ last.op = "clear")
          => \A v \in ReadInCallback : v = JNull

\* C4 happens: a callback of set("a", 42) has read 42 where "x" was before
C4_Witness ==
    /\ last.op = "set"
    /\ last.arg = JNum(42, 0)
    /\ JNum(42, 0) \in ReadInCallback

\* the subscriptions a call's own fire has invoked, in order, and those that
\* were registered for it when the call was made: the named ones of its
\* event, then the wildcard ones
InvokedByCall ==
    LET sel == SelectSeq(calls, LAMBDA c : c.kind = "call" /\ c.depth = 1)
    IN  [i \in DOMAIN sel |-> <<sel[i].callback, sel[i].wild>>]

RegisteredForCall ==
    LET named == SelectSeq(last.onList0, LAMBDA obj : obj.event = EventOf(last.op))
    IN  [i \in DOMAIN named |-> <<named[i].callback, FALSE>>]
          \o [i \in DOMAIN last.onAnyList0 |-> <<last.onAnyList0[i].callback, TRUE>>]

\* C5: off(event, cb) removes one subscription of cb to event, if there is
\* one, and leaves every other subscription registered, in order: those of
\* other callbacks to the same event and those of cb to other events, and the
\* wildcard list.  offAny(cb) does the same on the wildcard list and leaves
\* the named list alone.  A later call invokes the subscriptions that are
\* registered then, so not the removed one, and the others still.
C5_Unsubscribe ==
    /\ last.op = "off" =>
          LET hits == {i \in DOMAIN last.onList0 :
                          /\ last.onList0[i].event = last.arg[1]
                          /\ last.onList0[i].callback = Fn(last.arg[2], 0)}
          IN  /\ onAnyList = last.onAnyList0
              /\ IF hits = {} THEN onList = last.onList0
                 ELSE \E i \in hits : onList = Splice(last.onList0, i)
    /\ last.op = "offAny" =>
          LET hits == {i \in DOMAIN last.onAnyList0 :
                          last.onAnyList0[i].callback = Fn(last.arg[2], 0)}
          IN  /\ onList = last.onList0
              /\ IF hits = {} THEN onAnyList = last.onAnyList0
                 ELSE \E i \in hits : onAnyList = Splice(last.onAnyList0, i)
    /\ (Idle /\ last.op \in {"init", "set", "get", "remove", "clear"})
          => InvokedByCall = RegisteredForCall

\* C5 happens: off('set', A) has removed one of three subscriptions and left
\* the subscription of B to 'set' and that of A to 'get'
C5_Witness ==
    /\ last.op = "off"
    /\ last.arg = <<"set", "A">>
    /\ Len(last.onList0) = 3
    /\ Len(onList) = 2
    /\ \E i \in DOMAIN onList : onList[i].event = "set" /\ onList[i].callback = Fn("B", 0)
    /\ \E i \in DOMAIN onList : onList[i].event = "get" /\ onList[i].callback = Fn("A", 0)

OnceEntries == {onList[i] : i \in {j \in DOMAIN onList : onList[j].callback.w > 0}}
                 \cup {onAnyList[i] : i \in {j \in DOMAIN onAnyList : onAnyList[j].callback.w > 0}}

\* C6: a once subscription is invoked exactly once over two or more
\* matching operations and is then no longer registered: none is still
\* registered when two matching operations have completed.
C6_Once ==
    Idle => \A obj \in OnceEntries : obj.age < 2

\* C7: a subscription is never invoked once the signal it was registered
\* with has been triggered.
C7_Cancellation ==
    \A i \in DOMAIN calls : calls[i].kind = "call" => ~calls[i].wasAborted

\* "$$" + anything + "_data"
IsShadowName(key) ==
    \E body \in {SubSeq(key, Len(S_dollars) + 1, n) : n \in 0..Len(key)} :
        key = S_dollars \o body \o S_data

\* C8: a change notification for a key that is not a shadow-slot name, with
\* oldValue or newValue present, fires exactly one event with that key:
\* 'init' if only newValue is present, 'set' if both are, 'remove' if only
\* oldValue is.
C8_CrossTab ==
    (/\ last.op = "storage"
     /\ last.key # JNull
     /\ ~IsShadowName(last.key[2])
     /\ last.arg # <<JNull, JNull>>)
        => last.fired = << << IF last.arg[1] = JNull THEN "init"
                              ELSE IF last.arg[2] = JNull THEN "remove" ELSE "set",
                              last.key >> >>

\* C9: a change notification whose key is a shadow-slot name fires nothing
\* and invokes no subscriber.
C9_ShadowIgnored ==
    (last.op = "storage" /\ last.key # JNull /\ IsShadowName(last.key[2]))
        => last.fired = <<>> /\ calls = <<>>

\* C10: remove(key) never fails, fires 'remove' with key, and leaves both
\* slots of key absent; a get(key) right after it returns null.
C10_Remove ==
    /\ last.op = "remove" =>
          /\ last.status = "ok"
          /\ last.fired = << <<"remove", last.key>> >>
          /\ ~Present(storage, last.key[2])
          /\ ~Present(storage, ShadowKey(last.key[2]))
    /\ (Idle /\ last.op = "get" /\ last.prevOp = "remove" /\ last.prevKey = last.key)
          => last.status = "ok" /\ last.ret = JNull

\* C10 happens: a get right after remove("a") has returned null while another
\* key's slot is still there
C10_Witness ==
    /\ Idle
    /\ last.op = "get"
    /\ last.prevOp = "remove"
    /\ last.key = JStr(K_a)
    /\ last.prevKey = last.key
    /\ last.ret = JNull
    /\ Present(storage, ShadowKey(ShadowKey(K_a)))

\* C11: clear() returns normally, fires 'clear' once with no key and leaves
\* no slot in the medium, primary or shadow; a get right after it returns
\* null for whatever key.
C11_Clear ==
    /\ last.op = "clear" =>
          /\ last.status = "ok"
          /\ last.fired = << <<"clear", Undefined>> >>
          /\ \A slot \in Slots : ~Present(storage, slot)
    /\ (Idle /\ last.op = "get" /\ last.prevOp = "clear")
          => last.status = "ok" /\ last.ret = JNull

\* C11 happens: clear() has emptied a medium that held the two slots of two
\* keys
C11_Witness ==
    /\ last.op = "clear"
    /\ last.arg >= 3
    /\ \A slot \in Slots : ~Present(storage, slot)

\* C12: get(key) on a key with neither slot present returns normally,
\* returns null, and fires 'get' once with key.
C12_MissingKey ==
    (/\ Idle
     /\ last.op = "get"
     /\ ~Present(storage, last.key[2])
     /\ ~Present(storage, ShadowKey(last.key[2])))
        => /\ last.status = "ok"
           /\ last.ret = JNull
           /\ last.fired = << <<"get", last.key>> >>

\* C12 happens: get("a") has returned null for a key that no call just
\* before it removed
C12_Witness ==
    /\ Idle
    /\ last.op = "get"
    /\ last.key = JStr(K_a)
    /\ last.prevOp = ""
    /\ ~Present(storage, K_a)
    /\ ~Present(storage, ShadowKey(K_a))
    /\ last.ret = JNull
    /\ last.fired = << <<"get", JStr(K_a)>> >>

\* how many times x occurs in seq
Count(seq, x) == Cardinality({i \in DOMAIN seq : seq[i] = x})

\* the wildcard invocations of the call's own fire, as <<function, event
\* name, key>>
WildCalls ==
    LET sel == SelectSeq(calls, LAMBDA c : c.kind = "call" /\ c.depth = 1 /\ c.wild)
    IN  [i \in DOMAIN sel |-> <<sel[i].callback, sel[i].event, sel[i].key>>]

\* C13: a call of init, set, get, remove or clear invokes every wildcard
\* subscription registered when it is made exactly once, with the event name
\* and the key (no key for clear), and makes no other wildcard invocation,
\* whatever named subscriptions there are.
C13_Wildcard ==
    (Idle /\ last.op \in {"init", "set", "get", "remove", "clear"} /\ last.status = "ok")
        => /\ \A i \in DOMAIN last.onAnyList0 :
                 LET fn == last.onAnyList0[i].callback
                 IN  Count(WildCalls, <<fn, EventOf(last.op), last.key>>)
                       = Count([j \in DOMAIN last.onAnyList0 |-> last.onAnyList0[j].callback], fn)
           /\ Len(WildCalls) = Len(last.onAnyList0)

\* sub is seq with some elements left out
RECURSIVE IsSubSeq(_, _)
IsSubSeq(sub, seq) ==
    IF sub = <<>> THEN TRUE
    ELSE IF seq = <<>> THEN FALSE
    ELSE IF Head(sub) = Head(seq) THEN IsSubSeq(Tail(sub), Tail(seq))
    ELSE IsSubSeq(sub, Tail(seq))

\* the subscriptions of a list, without the count of fires
Ident(list) ==
    [i \in DOMAIN list |->
        [event |-> list[i].event, callback |-> list[i].callback, signal |-> list[i].signal]]

\* a list keeps registration order in a step: a subscription is added at the
\* end, or subscriptions are taken out and the others stay as they are
KeepsOrder(before, after) ==
    \/ IsSubSeq(Ident(after), Ident(before))
    \/ Len(after) = Len(before) + 1 /\ SubSeq(Ident(after), 1, Len(before)) = Ident(before)

\* C14: within a fire the named subscriptions of the event are invoked in
\* registration order and before every wildcard subscription, and the
\* wildcard subscriptions in registration order; both lists stay in
\* registration order through every subscribe and unsubscribe.
C14_FiringOrder ==
    /\ [](Idle /\ last.op \in {"init", "set", "get", "remove", "clear"}
             => IsSubSeq(InvokedByCall, RegisteredForCall))
    /\ [][KeepsOrder(onList, onList') /\ KeepsOrder(onAnyList, onAnyList')]_vars

\* C14 happens: a fire has invoked two named and then two wildcard
\* subscriptions, those of B registered before those of A
C14_Witness ==
    /\ Idle
    /\ last.op = "set"
    /\ Len(calls) = 4
    /\ InvokedByCall = << <<Fn("B", 0), FALSE>>, <<Fn("A", 0), FALSE>>,
                          <<Fn("B", 0), TRUE>>, <<Fn("A", 0), TRUE>> >>

\* the subscriptions for the call's event that are registered now, named as
\* in InvokedByCall
RegisteredNow ==
    LET named == SelectSeq(onList, LAMBDA obj : obj.event = EventOf(last.op))
    IN  [i \in DOMAIN named |-> <<named[i].callback, FALSE>>]
          \o [i \in DOMAIN onAnyList |-> <<onAnyList[i].callback, TRUE>>]

\* C15: when callbacks unsubscribe during a fire (here the self-removal of
\* the once subscriptions), no subscription that matched at the start of the
\* fire is invoked more often than it was registered, and every one that is
\* still registered after the fire has been invoked: none is skipped, none
\* is invoked twice.
C15_ReentrantSafe ==
    (Idle /\ last.op \in {"init", "set", "get", "remove", "clear"} /\ last.status = "ok")
        => \A i \in DOMAIN RegisteredForCall :
              LET x == RegisteredForCall[i]
              IN  /\ Count(InvokedByCall, x) <= Count(RegisteredForCall, x)
                  /\ Count(InvokedByCall, x) >= Count(RegisteredNow, x)

\* how many subscriptions of the caller's callback cb to event a list holds
SubscriptionsOf(list, event, cb) ==
    Cardinality({i \in DOMAIN list : list[i].event = event /\ list[i].callback.cb = cb})

\* how many times the call's own fire has invoked cb as a named subscriber
NamedInvocations(cb) ==
    Cardinality({i \in DOMAIN calls : /\ calls[i].kind = "call"
                                      /\ calls[i].depth = 1
                                      /\ ~calls[i].wild
                                      /\ calls[i].callback.cb = cb})

\* C16: the (event, callback) pair registered n times is n subscriptions:
\* a matching fire invokes the callback once for each; off(event, callback)
\* takes exactly one of them away and changes nothing when there is none.
C16_NoDeduplication ==
    /\ (Idle /\ last.op \in {"init", "set", "get", "remove", "clear"} /\ last.status = "ok")
          => \A cb \in Callbacks :
                NamedInvocations(cb) = SubscriptionsOf(last.onList0, EventOf(last.op), cb)
    /\ last.op = "off" =>
          LET n == SubscriptionsOf(last.onList0, last.arg[1], last.arg[2])
          IN  IF n = 0 THEN onList = last.onList0
              ELSE SubscriptionsOf(onList, last.arg[1], last.arg[2]) = n - 1

\* C17: with no medium, set(k, v), remove(k) and clear() return normally,
\* leave storage alone and fire their event once, with k (no key for clear).
C17_AbsentTolerant ==
    (storageType = "undefined" /\ last.op \in {"set", "remove", "clear"})
        => /\ last.status = "ok"
           /\ last.fired = << <<EventOf(last.op), last.key>> >>
           /\ \A slot \in Slots : ~Present(storage, slot)

\* C18: with no medium, init(k, v) and get(k) fail with an error, and the
\* failed call has fired nothing and invoked no subscriber.
C18_AbsentStrict ==
    (storageType = "undefined" /\ Idle /\ last.op \in {"init", "get"})
        => /\ last.status = "threw"
           /\ last.fired = <<>>
           /\ calls = <<>>

\* the shadow slot of the key that get was called with holds 'object' and
\* the primary slot a text that JSON.parse rejects
UndecodableObject ==
    /\ last.op = "get"
    /\ GetItem(storage, ShadowKey(last.key[2])) = JStr(S_object)
    /\ IsThrow(JsonParse(StringOf(GetItem(storage, last.key[2]))))

\* C19: get(key) on a key tagged 'object' whose payload is not a valid
\* serialized structure ends with the parse error, returned to nobody as a
\* value, and leaves the subscription lists as they were when it was called;
\* no step of a get changes a slot.
C19_DecodeError ==
    /\ []((Idle /\ UndecodableObject)
            => /\ last.status = "threw"
               /\ last.ret = SyntaxError
               /\ Ident(onList) = Ident(last.onList0)
               /\ Ident(onAnyList) = Ident(last.onAnyList0))
    /\ [][last'.op = "get" => storage' = storage]_vars

\* C20: when every notification of a call made in another context has been
\* handled, the events fired here are the one event the call fires there:
\* its own name, with its key (no key for clear).
C20_SameEvents ==
    (otherTab.op # "" /\ otherTab.pending = <<>>)
        => otherTab.fired = << <<EventOf(otherTab.op), otherTab.key>> >>

\* the subscriptions of a list that instance h did not register
NotOwnedBy(list, h) == SelectSeq(list, LAMBDA obj : obj.owner # h)

\* C21: a subscription registered through one instance is invoked only by
\* the operations and change notifications of that instance, and off / offAny
\* of another instance never removes it.
C21_InstanceOwned ==
    /\ \A i \in DOMAIN calls : calls[i].kind = "call" => calls[i].owner = last.via
    /\ last.op \in {"off", "offAny"} =>
          /\ NotOwnedBy(onList, last.via) = NotOwnedBy(last.onList0, last.via)
          /\ NotOwnedBy(onAnyList, last.via) = NotOwnedBy(last.onAnyList0, last.via)

\* the states of an instance
Uninitialized(h) == hooks[h].state = "none" \/ (hooks[h].state = "mounted" /\ storageType = "undefined")
Active(h)        == hooks[h].state = "mounted" /\ storageType # "undefined"
Detached(h)      == hooks[h].state = "unmounted"

\* how many 'storage' listeners of instance h the window holds
ListenersOf(h) ==
    Cardinality({i \in DOMAIN window.listeners : window.listeners[i].hook = h})

\* the medium the functions of instance h work on
MediumOf(h) == IF hooks[h].type = "session" THEN window.sessionStorage ELSE storage

\* C25: an Active instance has exactly one 'storage' listener installed,
\* through every render and change of type, and an Uninitialized or Detached
\* one has none; no change notification is handled through an instance that
\* is not Active; the init, set, get, remove and clear of a Detached instance
\* still do their storage calls, fire their event and invoke the subscribers.
C25_ListenerLifecycle ==
    /\ \A h \in Hooks : ListenersOf(h) = IF Active(h) THEN 1 ELSE 0
    /\ \A i \in DOMAIN window.dispatching : Active(window.dispatching[i].hook)
    /\ last.op = "storage" => Active(last.via)
    /\ (/\ Detached(last.via)
        /\ storageType # "undefined"
        /\ last.op \in {"init", "set", "get", "remove", "clear"})
          => /\ last.status = "ok"
             /\ last.fired = << <<EventOf(last.op), last.key>> >>
             /\ last.op \in {"init", "set"} =>
                   /\ MediumOf(last.via)[last.key[2]] = JStr(Encode(last.arg))
                   /\ MediumOf(last.via)[ShadowKey(last.key[2])] = JStr(TypeOf(last.arg))
             /\ last.op = "remove" =>
                   /\ ~Present(MediumOf(last.via), last.key[2])
                   /\ ~Present(MediumOf(last.via), ShadowKey(last.key[2]))
             /\ last.op = "clear" => \A slot \in Slots : ~Present(MediumOf(last.via), slot)
             /\ Idle => DirectCalls(FALSE) = NamedSubscribers

\* C25 happens: h1, rendered again with type 'session' and then unmounted,
\* has no listener left while h2 has its one; set("a", 42) called through h1
\* has written window.sessionStorage and invoked the two subscribers
C25_Witness ==
    /\ Idle
    /\ Detached("h1")
    /\ hooks["h1"].type = "session"
    /\ Active("h2")
    /\ window.listeners = <<Listener("h2", 1)>>
    /\ last.op = "set"
    /\ last.via = "h1"
    /\ window.sessionStorage[K_a] = JStr(<<"4", "2">>)
    /\ ~Present(storage, K_a)
    /\ Len(calls) = 2

\* the state a call leaves, but for the name it was called by
Outcome(m) == [m EXCEPT !.last.name = ""]

\* the arguments of on / off in the claim
AliasArgs == {"set"} \X {"A", "B"} \X {NoSignal, "s1"} \X BOOLEAN

\* C22: a call of addEventListener leaves the state that the call of on with
\* the same arguments and options leaves, and the other way round, and so do
\* removeEventListener and off: the lists, the 'abort' listeners and the
\* invocations that follow are the same, and each name of the unsubscribe
\* pair removes what either name of the subscribe pair added.
C22_Aliases ==
    [][\A a \in AliasArgs :
          /\ addEventListener(a[1], a[2], a[3], a[4])
                => Outcome(Machine') = Outcome(OnCall(Begin("on", Undefined, Undefined),
                                                      a[1], a[2], a[3], a[4]))
          /\ on(a[1], a[2], a[3], a[4])
                => Outcome(Machine') = Outcome(Member("addEventListener",
                                                      a[1], a[2], a[3], a[4]))
          /\ removeEventListener(a[1], a[2])
                => Outcome(Machine') = Outcome(OffCall(Begin("off", Undefined, <<a[1], a[2]>>),
                                                       a[1], Fn(a[2], 0)))
          /\ off(a[1], a[2])
                => Outcome(Machine') = Outcome(Member("removeEventListener",
                                                      a[1], a[2], NoSignal, FALSE))]_vars

\* C22 happens: removeEventListener('set', A) has removed the subscription
\* that on('set', A) added, and left the one addEventListener('set', B) added
C22_Witness ==
    /\ last.name = "removeEventListener"
    /\ last.arg = <<"set", "A">>
    /\ Len(last.onList0) = 2
    /\ \E i \in DOMAIN last.onList0 : last.onList0[i].callback = Fn("A", 0)
    /\ Len(onList) = 1
    /\ onList[1].callback.cb = "B"

\* C23: with the wildcard subscriber of the onAny example registered, no
\* call of init, set or get runs out of call stack: each returns after
\* finitely many invocations.
C23_WildcardTerminates ==
    last.op \in {"init", "set", "get"} => last.ret # RangeError

\* the invocations of once wrappers in the current top-level call
OnceCalls ==
    SelectSeq(calls, LAMBDA c : c.kind = "call" /\ c.callback.w > 0)

\* C27: a once subscription is invoked at most once in a top-level call, also
\* when its callback makes a call that fires its event again, and that call
\* does not run out of call stack.
C27_OnceNested ==
    /\ \A i, j \in DOMAIN OnceCalls :
          OnceCalls[i].callback = OnceCalls[j].callback => i = j
    /\ last.ret # RangeError

\* C24: a get(key) here that runs while init / set / remove of the same key
\* runs in another context returns normally, and returns what get(key) returned
\* before that call or what it returns after it.
C24_AtomicPair ==
    [][(/\ ~Idle
        /\ stack' = <<>>
        /\ last'.op = "get"
        /\ otherTab.op # ""
        /\ otherTab.key = last'.key)
          => /\ last'.status = "ok"
             /\ last'.ret \in {otherTab.before, otherTab.after}]_vars

\* the subscriptions of a list that were not registered with the signal sg
WithoutSignal(list, sg) == SelectSeq(list, LAMBDA obj : obj.signal # sg)

\* the elements of a list as the program holds them: {event, callback}
Content(list) ==
    [i \in DOMAIN list |-> [event |-> list[i].event, callback |-> list[i].callback]]

\* C26: the abort() of a signal takes the subscriptions registered with that
\* signal out of the lists and no other: the subscriptions registered without
\* it, also those of the same callback to the same event, are what the lists
\* hold afterwards, in their order.
C26_ExactCancel ==
    [][\A sg \in Signals :
          (abort(sg) /\ ~aborted[sg])
              => /\ Content(onList') = Content(WithoutSignal(onList, sg))
                 /\ Content(onAnyList') = Content(WithoutSignal(onAnyList, sg))]_vars

\* C28: what get(key) returns is decided by the tag t in the shadow slot
\* and the payload p in the primary slot: for 'object' the value whose
\* serialization is p (the parse error if there is none), for 'number' the
\* number parsed from p, for 'boolean' true iff p is "true", for 'undefined'
\* undefined whatever p is, and p itself for any other tag and for no tag,
\* which is null when there is no payload.
C28_DecodeDispatch ==
    (Idle /\ last.op = "get") =>
        LET t == storage[ShadowKey(last.key[2])]
            p == storage[last.key[2]]
        IN  CASE t = JStr(S_undefined) ->
                    last.status = "ok" /\ last.ret = Undefined
              [] t \in {JStr(S_object), JStr(S_number), JStr(S_boolean)} /\ p = JNull ->
                    TRUE
              [] t = JStr(S_object) ->
                    IF \E j \in JsonDomain : Stringify(j) = p[2]
                    THEN /\ last.status = "ok"
                         /\ last.ret \in JsonDomain
                         /\ Stringify(last.ret) = p[2]
                    ELSE last.status = "threw" /\ last.ret = SyntaxError
              [] t = JStr(S_number) ->
                    last.status = "ok" /\ last.ret = ParseFloat(p[2])
              [] t = JStr(S_boolean) ->
                    last.status = "ok" /\ last.ret = JBool(p[2] = S_true)
              [] OTHER ->
                    last.status = "ok" /\ last.ret = p

\* C28 happens: get("a") has returned false for the payload "x" tagged
\* 'boolean'
C28_Witness ==
    /\ Idle
    /\ last.op = "get"
    /\ storage[ShadowKey(K_a)] = JStr(S_boolean)
    /\ storage[K_a] = JStr(<<"x">>)
    /\ last.ret = JBool(FALSE)

\* C29: after init(key, v) or set(key, v) the primary slot holds the
\* serialization of v if typeof v is 'object' and String(v) otherwise, and the
\* shadow slot "$$" + key + "_data" holds typeof v; the call writes no other
\* slot.
C29_StorageFormat ==
    /\ [](last.op \in {"init", "set"} =>
            /\ storage[last.key[2]] =
                  JStr(IF last.arg[1] \in {"null", "array", "record"}
                       THEN Stringify(last.arg) ELSE StringOf(last.arg))
            /\ storage[S_dollars \o last.key[2] \o S_data] = JStr(TypeOf(last.arg)))
    /\ [][last'.op \in {"init", "set"} =>
            \A slot \in Slots \ {last'.key[2], S_dollars \o last'.key[2] \o S_data} :
                storage'[slot] = storage[slot]]_vars

\* C29 happens: set("a", [1, "x"]) has written the two slots of "a" beside
\* the slots of another key
C29_Witness ==
    /\ last.op = "set"
    /\ last.arg = JArr(<< JNum(1, 0), JStr(<<"x">>) >>)
    /\ storage[K_a] = JStr(<<"[", "1", ",", "\"", "x", "\"", "]">>)
    /\ storage[ShadowKey(K_a)] = JStr(S_object)
    /\ Present(storage, ShadowKey(ShadowKey(K_a)))

\* C30: init(key, v) leaves the medium as set(key, v) does from the same
\* state, and set as init does; either, called again with the same arguments,
\* changes no slot; init fires 'init' and set fires 'set', whether or not the
\* key was there.
C30_InitIsSet ==
    [][\A w \in StoreWrites :
          /\ init(w[1], w[2])
                => /\ storage' = SetCall(Begin("set", JStr(w[1]), w[2]), w[1], w[2]).storage
                   /\ last'.fired = << <<"init", JStr(w[1])>> >>
          /\ set(w[1], w[2])
                => /\ storage' = InitCall(Begin("init", JStr(w[1]), w[2]), w[1], w[2]).storage
                   /\ last'.fired = << <<"set", JStr(w[1])>> >>
          /\ ((init(w[1], w[2]) \/ set(w[1], w[2]))
                /\ last.op \in {"init", "set"} /\ last.key = JStr(w[1]) /\ last.arg = w[2])
                => storage' = storage]_vars

\* C30 happens: init("a", 42) has been called on a medium where "a" held
\* another value (its shadow slot has been written as the key "$$a_data")
C30_Witness ==
    /\ last.op = "init"
    /\ last.key = JStr(K_a)
    /\ last.arg = JNum(42, 0)
    /\ last.fired = << <<"init", JStr(K_a)>> >>
    /\ storage[K_a] = JStr(<<"4", "2">>)
    /\ storage[ShadowKey(K_a)] = JStr(S_number)
    /\ Present(storage, ShadowKey(ShadowKey(K_a)))

\* a change notification with no key, or with neither oldValue nor newValue
Malformed(key, arg) == key = JNull \/ arg = <<JNull, JNull>>

\* C31: the handling of a change notification whose key is absent, or whose
\* oldValue and newValue are both absent, fires nothing, invokes no
\* subscriber, throws nothing and leaves the medium and both lists as they
\* were.
C31_MalformedIgnored ==
    [][(last'.op = "storage" /\ Malformed(last'.key, last'.arg))
          => /\ last'.status = "ok"
             /\ last'.fired = <<>>
             /\ calls' = <<>>
             /\ stack' = <<>>
             /\ storage' = storage
             /\ onList' = onList
             /\ onAnyList' = onAnyList]_vars

\* C31 happens: a notification without a key, with a new value, has been
\* handled while subscribers of 'init' and of every event were registered and
\* the key "a" was stored
C31_Witness ==
    /\ last.op = "storage"
    /\ last.key = JNull
    /\ last.arg = <<JNull, JStr(<<"x">>)>>
    /\ \E i \in DOMAIN onList : onList[i].event = "init"
    /\ onAnyList # <<>>
    /\ Present(storage, K_a)
    /\ calls = <<>>

\* C32: get decodes before it fires 'get': a get whose decode has failed has
\* invoked no subscriber.
C32_DecodeBeforeFire ==
    (last.op = "get" /\ last.status = "threw" /\ last.ret = SyntaxError)
        => calls = <<>>

\* C33: init(k, v), set(k, v) and remove(k) leave what get(k2) returns as it
\* was, for every key k2 other than k, also when k or k2 has the shape of a
\* shadow-slot name.
C33_KeyIsolation ==
    [][\A k \in StoreKeys :
          (Idle /\ last'.op \in {"init", "set", "remove"} /\ last'.key = JStr(k))
              => \A k2 \in StoreKeys \ {k} : Stored(storage', k2) = Stored(storage, k2)]_vars

\* C34: when every notification of an init(k, v) or set(k, v) made in another
\* context has been handled here, and the call changed what get(k) returns,
\* 'init' or 'set' has been fired here with the key k.
C34_NoLostChange ==
    (/\ otherTab.op \in {"init", "set"}
     /\ otherTab.pending = <<>>
     /\ otherTab.before # otherTab.after)
        => \E i \in DOMAIN otherTab.fired :
              otherTab.fired[i][1] \in {"init", "set"} /\ otherTab.fired[i][2] = otherTab.key

\* how many 'storage' listeners have been called with the event that the
\* window is dispatching or has dispatched last
Delivered == Len(window.listeners) - Len(window.dispatching)

\* C35: one change notification invokes each matching subscription once,
\* however many instances are Active on the scope it comes from: the handling
\* of the notification by a second listener invokes no subscriber again.
C35_DeliveredOnce ==
    (/\ last.op = "storage"
     /\ Delivered >= 2
     /\ \A h \in Hooks : Active(h) => hooks[h].type = window.event.storageArea)
        => calls = <<>>

\* C36: the handling of a change notification through an instance bound to
\* the other scope than the storage area the notification comes from fires
\* nothing and invokes no subscriber.
C36_ScopeIsolation ==
    (/\ last.op = "storage"
     /\ Delivered >= 1
     /\ hooks[last.via].type # window.event.storageArea)
        => last.fired = <<>> /\ calls = <<>>

\* C37: a subscription registered with a signal that had already aborted is
\* never invoked (under SpecLate a signal is passed to on / onAny only once it
\* has aborted, so these are the subscriptions that carry a signal).
C37_AbortedAtRegistration ==
    \A i \in DOMAIN calls :
        calls[i].kind = "call" => calls[i].signal = NoSignal

\* C38: off(event, cb) removes the subscription of cb to event also when it
\* was registered with once, and offAny(cb) the wildcard subscription of cb:
\* when that subscription was the only one of its list, the list is empty
\* after the call, so that no later fire invokes cb.
C38_OnceUnsubscribe ==
    /\ (/\ last.op = "off"
        /\ Len(last.onList0) = 1
        /\ last.onList0[1].event = last.arg[1]
        /\ last.onList0[1].callback.cb = last.arg[2])
          => onList = <<>>
    /\ (/\ last.op = "offAny"
        /\ Len(last.onAnyList0) = 1
        /\ last.onAnyList0[1].callback.cb = last.arg[2])
          => onAnyList = <<>>

\* C39: a subscription added by a callback during a fire is not invoked in
\* that fire: a call invokes no more subscribers than were registered for its
\* event, named and wildcard, when it was made, and so returns after that
\* many invocations at most.
C39_SubscribeDuringFire ==
    last.op \in {"init", "set", "get", "remove", "clear"}
        => Len(InvokedByCall) <= Len(RegisteredForCall)

\* a once subscription that the current top-level call has invoked
InvokedOnce(obj) ==
    /\ obj.callback.w > 0
    /\ \E i \in DOMAIN calls : calls[i].kind = "call" /\ calls[i].callback = obj.callback

\* a list without the once subscriptions that the call has invoked
Surviving(list) == SelectSeq(list, LAMBDA obj : ~InvokedOnce(obj))

\* C40: no step of a get changes a slot; on, addEventListener, onAny, off,
\* removeEventListener and offAny change no slot and invoke no callback; when
\* init, set, get, remove or clear has returned, the two lists hold what they
\* held when it was called but for the once subscriptions it invoked.
C40_Frames ==
    /\ [][last'.op = "get" => storage' = storage]_vars
    /\ [][last'.op \in {"on", "onAny", "off", "offAny"}
            => storage' = storage /\ calls' = <<>> /\ stack' = <<>>]_vars
    /\ []((Idle /\ last.op \in {"init", "set", "get", "remove", "clear"})
            => /\ Content(onList) = Content(Surviving(last.onList0))
               /\ Content(onAnyList) = Content(Surviving(last.onAnyList0)))

\* C40 happens: clear() has emptied a medium that held slots and has invoked
\* a once subscriber of 'clear', which is gone, while the subscriber of 'get'
\* registered by addEventListener is still there
C40_Witness ==
    /\ Idle
    /\ last.op = "clear"
    /\ last.arg > 0
    /\ \A slot \in Slots : ~Present(storage, slot)
    /\ Len(last.onList0) = 2
    /\ \E i \in DOMAIN calls : calls[i].callback.w > 0
    /\ Len(onList) = 1
    /\ onList[1].event = "get"

====
